---- MODULE Spec2Model ----
(***************************************************************************)
(* Model of the quilora-ai RAG service: the Qdrant document-store adapter  *)
(* (src/src/document_stores/store.py), the retrieval pipelines             *)
(* (src/src/pipelines/retrieval.py) and the POST /query boundary           *)
(* (src/src/api/routes/query.py, src/src/api/schemas/query.py).            *)
(*                                                                         *)
(* Python values are encoded as follows.  A str is a sequence of           *)
(* one-character strings where the code looks inside it (the query, the    *)
(* MD5 digest) and a TLA+ string where it does not.  Optional[T] is the    *)
(* empty sequence for None and the one-element sequence <<v>> for a value  *)
(* v.  A dict is a function from keys to values.                           *)
(***************************************************************************)
EXTENDS Integers, Sequences, FiniteSets, TLC

VARIABLES
    collection,             \* the points of the Qdrant collection
    lastOp,                 \* the adapter call that has just returned or raised
    run,                    \* the frame of the retrieval call in progress
    events,                 \* the events retrieve_documents_streaming has yielded
    sse,                    \* the events generate_sse_stream has yielded
    outcome,                \* what the retrieval call returned or raised
    http,                   \* the POST /query request and its response
    cached_embedder,        \* retrieval._cached_embedder
    cached_document_store,  \* retrieval._cached_document_store
    exists,                 \* whether the collection exists on the Qdrant server
    constructed,            \* how many QdrantDocumentStore objects the process has built
    api,                    \* the documents or health request and its response
    created,                \* the document ids that POST /documents and /upload have returned
    reading,                \* the uploads that wait at `await file.read()`
    calls,                  \* per thread, the frame of its call of a get function or constructor
    embedders,              \* how many OpenAITextEmbedder objects the process has built
    made,                   \* the objects the get functions built since the last reset, and the resets
    raced,                  \* whether a call has started while another was in progress
    started                 \* how many calls the threads have started

storeVars == <<collection, lastOp>>
queryVars == <<run, events, sse, outcome, http, cached_embedder, cached_document_store>>
docsVars == <<exists, constructed, api, created, reading>>
cacheVars == <<calls, embedders, made, raced, started>>
vars == <<collection, lastOp, run, events, sse, outcome, http,
          cached_embedder, cached_document_store, exists, constructed, api, created,
          reading,
          calls, embedders, made, raced, started>>

(***************************************************************************)
(* Bounds of the model.                                                    *)
(***************************************************************************)
MaxDocs == 3
MaxBatch == 2
MaxIds == 2
MaxQueryLen == 2
MaxTopK == 2
MaxStored == 2
MaxChunks == 2
MaxThreads == 2
MaxCalls == 4

(***************************************************************************)
(* Python helpers.                                                         *)
(***************************************************************************)
None == <<>>
Some(v) == <<v>>
IsNone(o) == o = None
Val(o) == o[1]

EmptyDict == [k \in {} |-> k]

\* {**a, **b}: the keys of b override those of a
DictMerge(a, b) ==
    [k \in (DOMAIN a) \cup (DOMAIN b) |-> IF k \in DOMAIN b THEN b[k] ELSE a[k]]

\* dict.get(key, default)
DictGet(d, k, default) == IF k \in DOMAIN d THEN d[k] ELSE default

SeqsUpTo(S, n) == UNION {[1..m -> S] : m \in 0..n}

Range(s) == {s[i] : i \in DOMAIN s}

Min(a, b) == IF a < b THEN a ELSE b

RECURSIVE SelectSeqBy(_, _)
\* [x for x in s if keep[x]] for a sequence s and a predicate given as a set
SelectSeqBy(s, keep) ==
    IF s = <<>> THEN <<>>
    ELSE IF Head(s) \in keep THEN <<Head(s)>> \o SelectSeqBy(Tail(s), keep)
         ELSE SelectSeqBy(Tail(s), keep)

(***************************************************************************)
(* Documents handed to the adapter.                                        *)
(***************************************************************************)
DocIds == {"doc1", "doc2"}
OtherIds == {"doc3"}

\* content, embedding and meta of the documents the model writes
Bodies ==
    { [content |-> "a", embedding |-> Some("vx"), meta |-> [category |-> "tech"]],
      [content |-> "b", embedding |-> Some("vx"), meta |-> [category |-> "art"]],
      [content |-> "b", embedding |-> Some("vy"), meta |-> [category |-> "tech"]],
      [content |-> "c", embedding |-> None,       meta |-> [category |-> "tech"]] }

Documents ==
    { [id |-> i, content |-> b.content, embedding |-> b.embedding, meta |-> b.meta] :
        i \in DocIds, b \in Bodies }

DefaultBatchSize == 100
\* the number of chunks OpenAIDocumentEmbedder sends in one embedding request:
\* indexing.py:46-49 passes no batch_size, which leaves the component's default
EmbedderBatchSize == 32
BatchSizes == (1..MaxBatch) \cup {DefaultBatchSize}

(***************************************************************************)
(* hashlib.md5(str(doc_id).encode()).hexdigest(): the digests of the ids   *)
(* the model uses, as sequences of hexadecimal digits.                     *)
(***************************************************************************)
md5_hexdigest(s) ==
    CASE s = "doc1" -> <<"8","3","e","4","b","1","7","8","9","3","0","6","d","3","d","1",
                         "c","9","9","1","4","0","d","f","3","8","2","7","d","6","0","0">>
      [] s = "doc2" -> <<"2","7","1","5","5","9","e","c","2","5","2","6","8","b","b","9",
                         "b","b","2","a","d","7","f","d","8","b","4","c","f","7","1","a">>
      [] s = "doc3" -> <<"a","f","7","5","c","7","1","a","c","2","3","e","1","1","5","6",
                         "c","0","e","f","1","b","a","6","a","9","d","e","e","b","0","3">>
      [] s = "u1"   -> <<"e","4","7","7","4","c","d","d","a","0","7","9","3","f","8","6",
                         "4","1","4","e","8","b","9","1","4","0","b","b","6","d","b","4">>
      [] s = "u2"   -> <<"2","7","0","c","1","b","0","8","4","f","3","f","1","4","6","e",
                         "b","5","7","8","7","0","7","5","1","5","8","d","9","c","5","3">>
      [] s = "u1#1" -> <<"b","0","4","5","6","f","8","4","d","9","6","1","5","a","6","b",
                         "0","f","a","7","2","8","d","a","8","0","5","7","2","b","e","e">>
      [] s = "u1#2" -> <<"7","1","e","d","c","c","f","f","2","6","a","2","3","b","2","f",
                         "d","6","3","3","3","9","1","1","3","2","3","0","5","b","4","6">>
      [] s = "u1#3" -> <<"3","3","8","0","6","0","e","c","e","4","3","8","d","a","4","4",
                         "9","1","8","c","4","2","8","3","4","6","a","6","f","9","c","1">>
      [] s = "u2#1" -> <<"2","a","1","d","2","2","f","4","e","7","2","c","1","6","8","e",
                         "3","c","c","8","0","3","b","3","f","8","b","b","f","c","e","8">>
      [] s = "u2#2" -> <<"c","0","9","f","8","b","b","3","c","a","e","2","c","6","3","4",
                         "b","3","5","c","a","8","8","1","f","f","d","f","4","a","5","9">>
      [] s = "u2#3" -> <<"3","7","0","7","a","b","b","8","a","c","5","3","4","8","f","e",
                         "3","f","4","a","3","7","9","1","e","7","0","4","5","6","1","1">>
      [] s = "u1#4" -> <<"4","9","7","4","c","c","b","3","e","6","c","f","2","e","0","5",
                         "e","4","5","5","4","d","5","e","b","f","8","b","7","1","c","d">>
      [] s = "u1#5" -> <<"8","1","a","8","1","3","5","8","e","7","1","d","e","8","3","6",
                         "8","1","3","1","8","9","1","9","4","2","8","7","7","9","e","3">>
      [] s = "u1#6" -> <<"e","1","d","c","7","6","5","b","8","0","8","6","5","d","d","c",
                         "0","f","a","a","a","1","f","9","3","a","f","2","9","9","9","7">>
      [] s = "u1#7" -> <<"0","6","7","b","2","f","e","f","1","2","e","9","9","8","1","9",
                         "6","6","0","4","6","a","f","c","5","1","8","6","a","8","7","c">>
      [] s = "u1#8" -> <<"1","a","6","e","5","7","6","6","5","c","d","0","f","f","0","0",
                         "4","3","4","f","c","f","7","b","a","8","7","f","0","2","1","2">>
      [] s = "u1#9" -> <<"4","e","9","2","d","5","0","1","5","c","c","e","8","e","a","2",
                         "c","5","3","6","9","2","b","8","0","0","9","c","f","3","6","b">>
      [] s = "u1#10" -> <<"b","5","e","4","a","d","a","c","e","4","d","5","0","2","a","3",
                         "5","4","5","c","d","3","4","4","8","a","3","4","b","9","c","7">>
      [] s = "u1#11" -> <<"a","b","a","6","c","7","3","5","7","a","0","7","1","7","7","4",
                         "a","5","7","d","c","d","9","0","1","2","4","f","b","6","c","a">>
      [] s = "u1#12" -> <<"9","a","0","9","d","a","6","d","e","7","5","e","e","0","e","7",
                         "e","5","f","1","b","4","a","7","c","c","5","e","2","2","0","2">>
      [] s = "u1#13" -> <<"4","8","d","8","8","e","4","d","e","3","c","d","9","9","5","1",
                         "9","e","a","1","7","a","5","3","4","f","b","d","c","3","5","b">>
      [] s = "u1#14" -> <<"f","5","e","6","a","f","2","f","a","c","c","8","a","5","5","c",
                         "2","b","9","d","a","d","1","8","3","f","6","7","f","0","3","a">>
      [] s = "u1#15" -> <<"8","d","c","d","e","6","e","a","1","b","3","1","8","9","9","2",
                         "a","b","3","5","4","8","d","c","9","1","3","b","8","b","8","2">>
      [] s = "u1#16" -> <<"5","5","e","f","b","4","0","5","a","9","1","a","0","0","7","7",
                         "5","3","a","a","4","0","b","3","e","8","3","7","0","c","c","b">>
      [] s = "u1#17" -> <<"f","b","b","6","d","8","9","d","1","4","2","f","1","d","3","f",
                         "9","f","1","2","4","5","0","c","8","f","2","f","5","1","d","e">>
      [] s = "u1#18" -> <<"a","b","5","c","2","f","4","0","9","a","a","9","f","a","0","4",
                         "f","e","8","d","4","7","9","8","b","2","8","a","a","0","0","e">>
      [] s = "u1#19" -> <<"4","9","4","0","7","d","1","f","9","5","c","2","c","0","c","8",
                         "6","4","7","0","d","6","1","0","3","6","3","9","2","b","1","c">>
      [] s = "u1#20" -> <<"1","4","a","9","0","f","c","c","a","4","8","0","1","0","3","2",
                         "5","0","d","7","1","4","3","8","1","e","b","7","7","8","a","1">>
      [] s = "u1#21" -> <<"8","a","3","b","1","b","9","0","6","c","6","f","3","9","e","b",
                         "b","5","b","4","6","3","7","6","9","4","3","d","b","f","6","b">>
      [] s = "u1#22" -> <<"8","b","8","1","6","1","6","0","2","9","4","d","c","6","4","4",
                         "8","7","8","e","0","7","a","0","8","4","9","c","9","b","7","7">>
      [] s = "u1#23" -> <<"2","d","1","d","4","2","5","8","c","c","d","9","4","9","d","6",
                         "4","a","c","3","f","d","6","f","7","5","5","e","6","f","c","e">>
      [] s = "u1#24" -> <<"c","8","d","e","1","0","5","2","b","5","1","4","a","7","4","1",
                         "6","5","0","f","a","6","b","5","3","a","d","1","7","8","9","d">>
      [] s = "u1#25" -> <<"5","8","a","a","3","e","8","b","a","f","5","b","d","9","2","0",
                         "6","7","f","2","7","0","3","9","6","6","b","e","4","a","6","e">>
      [] s = "u1#26" -> <<"7","7","8","6","c","d","c","5","e","f","c","6","0","3","f","3",
                         "a","4","0","8","a","e","f","c","a","c","0","b","2","3","f","5">>
      [] s = "u1#27" -> <<"4","e","b","9","0","0","9","6","2","7","2","8","f","2","d","4",
                         "5","0","4","b","d","8","e","6","7","7","5","0","a","8","1","f">>
      [] s = "u1#28" -> <<"e","b","d","a","6","d","0","f","5","c","c","0","e","c","e","8",
                         "f","d","b","6","4","7","b","f","f","3","3","0","8","0","c","5">>
      [] s = "u1#29" -> <<"a","e","f","7","f","1","9","e","0","b","a","6","3","9","f","3",
                         "b","6","7","c","1","1","1","9","1","0","3","6","7","f","a","d">>
      [] s = "u1#30" -> <<"b","c","5","2","0","f","9","c","2","9","3","4","d","4","b","c",
                         "5","5","c","7","a","7","1","8","5","8","2","3","a","b","a","e">>
      [] s = "u1#31" -> <<"3","2","a","1","e","2","d","a","b","6","1","d","d","5","2","9",
                         "4","8","9","1","2","8","9","8","f","7","d","f","6","3","9","e">>
      [] s = "u1#32" -> <<"7","6","5","9","7","b","0","9","3","d","6","1","6","4","d","5",
                         "b","a","8","b","5","2","0","7","c","0","1","b","b","5","6","0">>
      [] s = "u1#33" -> <<"8","f","1","f","0","4","3","e","6","f","f","7","c","3","b","2",
                         "a","7","b","1","d","2","4","a","6","b","4","8","4","1","e","3">>
      [] s = "u2#4" -> <<"2","a","4","3","c","e","b","b","c","1","e","b","9","0","f","9",
                         "7","4","7","e","b","f","f","7","e","e","f","4","8","c","8","9">>
      [] s = "u2#5" -> <<"d","5","0","8","a","e","f","9","5","a","9","6","a","f","f","2",
                         "c","d","0","2","1","3","9","4","5","4","6","4","d","e","8","5">>
      [] s = "u2#6" -> <<"0","2","c","9","9","0","b","d","a","c","3","9","d","8","a","b",
                         "2","3","3","6","c","4","b","b","d","4","3","1","7","c","3","0">>
      [] s = "u2#7" -> <<"e","4","6","e","5","9","2","4","d","4","1","6","4","f","0","1",
                         "1","4","f","d","e","0","6","7","b","3","c","0","b","3","c","0">>
      [] s = "u2#8" -> <<"6","f","c","6","9","5","e","b","8","6","f","c","4","3","3","0",
                         "4","e","c","6","7","d","5","a","c","5","9","7","3","1","4","8">>
      [] s = "u2#9" -> <<"5","1","2","5","1","1","4","8","e","4","a","a","d","8","3","4",
                         "9","9","0","8","d","2","6","a","9","0","3","0","c","1","6","c">>
      [] s = "u2#10" -> <<"b","d","3","b","1","7","b","3","9","c","0","0","6","1","6","2",
                         "e","3","0","1","0","7","5","8","3","1","a","0","b","b","c","8">>
      [] s = "u2#11" -> <<"e","1","f","a","a","c","9","7","6","a","4","c","0","8","d","c",
                         "1","a","1","4","9","7","e","f","2","4","a","1","a","a","9","7">>
      [] s = "u2#12" -> <<"0","3","4","e","e","3","8","c","d","e","2","4","7","3","5","b",
                         "9","b","e","d","b","f","a","3","5","8","8","1","5","6","3","3">>
      [] s = "u2#13" -> <<"8","c","d","a","d","5","8","6","6","c","e","0","c","7","d","6",
                         "8","7","b","5","1","9","4","4","d","b","5","3","5","7","d","c">>
      [] s = "u2#14" -> <<"b","3","5","0","1","8","a","e","4","9","2","c","e","3","d","7",
                         "f","2","4","2","5","8","3","e","2","b","3","b","1","b","d","2">>
      [] s = "u2#15" -> <<"9","3","0","9","0","b","4","d","0","b","e","d","9","6","e","1",
                         "7","e","d","b","b","7","1","0","a","2","5","5","b","e","b","d">>
      [] s = "u2#16" -> <<"9","5","6","f","0","5","6","5","b","3","4","9","7","d","0","e",
                         "0","e","0","4","2","d","2","f","8","2","2","5","4","9","9","4">>
      [] s = "u2#17" -> <<"b","f","1","b","a","d","5","6","0","6","a","7","1","1","e","f",
                         "5","5","e","d","b","a","c","f","b","1","a","2","4","a","3","b">>
      [] s = "u2#18" -> <<"9","b","e","b","a","1","5","d","d","8","7","5","9","a","5","a",
                         "8","7","3","e","8","9","6","7","5","8","0","2","9","5","f","2">>
      [] s = "u2#19" -> <<"8","a","b","9","a","c","d","2","8","f","5","0","4","1","b","4",
                         "c","6","6","8","8","9","b","6","0","3","1","4","c","5","c","6">>
      [] s = "u2#20" -> <<"0","1","2","7","6","2","f","6","7","4","d","0","0","7","8","e",
                         "5","e","e","e","9","3","d","4","6","1","b","d","2","1","9","1">>
      [] s = "u2#21" -> <<"a","7","4","3","1","b","9","a","c","4","c","7","5","8","2","2",
                         "7","a","8","1","8","5","0","a","f","4","c","a","a","a","7","d">>
      [] s = "u2#22" -> <<"e","0","1","8","1","2","0","5","a","0","b","e","b","4","c","b",
                         "e","5","6","3","a","e","a","9","e","4","c","5","8","9","9","6">>
      [] s = "u2#23" -> <<"0","0","f","c","8","b","f","b","c","6","f","8","1","9","b","d",
                         "7","e","1","a","f","4","8","7","0","b","6","f","a","4","2","b">>
      [] s = "u2#24" -> <<"0","3","2","b","3","e","6","8","c","e","7","f","1","a","f","e",
                         "f","6","1","0","d","4","c","9","a","6","e","a","f","5","a","7">>
      [] s = "u2#25" -> <<"2","9","5","5","8","f","c","1","7","4","4","1","2","4","7","6",
                         "4","2","7","9","4","c","0","3","b","b","1","2","6","1","c","9">>
      [] s = "u2#26" -> <<"f","b","5","5","e","a","0","7","1","f","3","8","4","0","e","f",
                         "b","3","3","d","4","6","2","8","f","3","b","7","9","4","f","4">>
      [] s = "u2#27" -> <<"7","5","1","d","0","4","0","e","e","7","1","3","1","e","2","f",
                         "2","c","d","d","c","7","f","b","f","0","c","e","7","3","7","c">>
      [] s = "u2#28" -> <<"0","e","c","2","f","f","d","5","f","7","2","a","9","8","4","0",
                         "7","6","a","a","d","8","7","5","7","7","f","8","4","6","e","f">>
      [] s = "u2#29" -> <<"a","0","4","0","9","8","8","4","2","d","8","d","1","d","6","e",
                         "f","e","e","8","9","2","0","6","c","1","c","5","f","6","2","a">>
      [] s = "u2#30" -> <<"a","1","3","1","d","3","a","1","d","1","b","2","f","2","3","d",
                         "c","8","c","5","3","f","0","0","8","b","d","d","8","3","e","9">>
      [] s = "u2#31" -> <<"b","8","f","4","8","c","7","8","e","9","7","a","a","0","2","2",
                         "9","e","3","b","8","c","1","6","3","f","9","e","c","e","4","9">>
      [] s = "u2#32" -> <<"a","0","c","a","3","e","b","d","d","e","6","8","d","f","1","7",
                         "a","b","6","6","7","f","d","9","7","9","8","0","1","c","2","7">>
      [] s = "u2#33" -> <<"9","b","a","6","5","a","3","a","e","d","2","d","a","8","6","f",
                         "9","f","7","d","7","5","5","6","3","0","e","0","f","b","8","8">>

\* Python slice h[a:b] with 0-based, end-exclusive indices
Slice(h, a, b) == SubSeq(h, a + 1, b)

\* store.py:130-131, the point id write_documents derives from a document id
WritePointIdSwapped(doc_id) ==
    LET md5_hash == md5_hexdigest(doc_id) IN
    Slice(md5_hash, 8, 12) \o <<"-">> \o Slice(md5_hash, 0, 8) \o <<"-">> \o
    Slice(md5_hash, 12, 16) \o <<"-">> \o Slice(md5_hash, 16, 20) \o <<"-">> \o
    Slice(md5_hash, 20, 32)

WritePointId(doc_id) ==
    LET md5_hash == md5_hexdigest(doc_id) IN
    Slice(md5_hash, 0, 8) \o <<"-">> \o Slice(md5_hash, 8, 12) \o <<"-">> \o
    Slice(md5_hash, 12, 16) \o <<"-">> \o Slice(md5_hash, 16, 20) \o <<"-">> \o
    Slice(md5_hash, 20, 32)

\* store.py:257-258, the point id delete_documents derives from a document id
DeletePointId(doc_id) ==
    LET md5_hash == md5_hexdigest(doc_id) IN
    Slice(md5_hash, 0, 8) \o <<"-">> \o Slice(md5_hash, 8, 12) \o <<"-">> \o
    Slice(md5_hash, 12, 16) \o <<"-">> \o Slice(md5_hash, 16, 20) \o <<"-">> \o
    Slice(md5_hash, 20, 32)

\* store.py:134-138
Payload(doc) ==
    DictMerge([content |-> doc.content, doc_id |-> doc.id], doc.meta)

\* store.py:130-131 for each string whose digest md5_hexdigest lists, computed once
PointIdOf ==
    [doc_id \in {"doc1", "doc2", "doc3", "u1", "u2"}
                \cup {u \o "#" \o ToString(i) : u \in {"u1", "u2"}, i \in 1..(EmbedderBatchSize + 1)}
        |-> WritePointId(doc_id)]

\* store.py:141-145
PointStruct(doc) ==
    [id |-> PointIdOf[doc.id], vector |-> Val(doc.embedding), payload |-> Payload(doc)]

(***************************************************************************)
(* The Qdrant server, as far as the adapter uses it.                       *)
(***************************************************************************)
RECURSIVE Upsert(_, _)
\* client.upsert: every point replaces the stored point with the same id
Upsert(coll, batch) ==
    IF batch = <<>> THEN coll
    ELSE Upsert({p \in coll : p.id # Head(batch).id} \cup {Head(batch)}, Tail(batch))

\* client.delete with a list of point ids
DeleteByIds(coll, point_ids) == {p \in coll : p.id \notin Range(point_ids)}

\* Filter(must=[FieldCondition(key, MatchValue(value)), ...])
Matches(payload, conditions) ==
    \A k \in DOMAIN conditions : k \in DOMAIN payload /\ payload[k] = conditions[k]

\* client.delete with a filter
DeleteByFilter(coll, conditions) == {p \in coll : ~Matches(p.payload, conditions)}

\* client.get_collection(name).points_count
PointsCount(coll) == Cardinality(coll)

(***************************************************************************)
(* QdrantDocumentStore.write_documents (store.py:101-168).                 *)
(***************************************************************************)
\* store.py:120-146, the points built from the documents that have an embedding
PointsOfNoSkip(documents) ==
    [i \in 1..Len(documents) |->
        [id |-> WritePointId(documents[i].id),
         vector |-> IF IsNone(documents[i].embedding) THEN "null"
                    ELSE Val(documents[i].embedding),
         payload |-> Payload(documents[i])]]

PointsOf(documents) ==
    LET withEmbedding == {d \in Range(documents) : ~IsNone(d.embedding)}
        kept == SelectSeqBy(documents, withEmbedding)
    IN [i \in 1..Len(kept) |-> PointStruct(kept[i])]

\* range(0, len(points), batch_size): the number of batches
NumBatches(points, batch_size) == (Len(points) + batch_size - 1) \div batch_size

\* a slice that starts one point late, points[i + 1 : i + batch_size]
BatchSkipsFirst(points, batch_size, j) ==
    SubSeq(points, (j - 1) * batch_size + 2, Min(j * batch_size, Len(points)))

\* points[i : i + batch_size] for the j-th batch, j = 1, 2, ...
Batch(points, batch_size, j) ==
    SubSeq(points, (j - 1) * batch_size + 1, Min(j * batch_size, Len(points)))

RECURSIVE UpsertBatches(_, _, _, _)
\* the collection after the batches from..to have been upserted in order
UpsertBatches(coll, points, batch_size, to) ==
    IF to = 0 THEN coll
    ELSE Upsert(UpsertBatches(coll, points, batch_size, to - 1),
                Batch(points, batch_size, to))

\* total_written advanced by one per batch instead of by the batch length
SumLenPerBatch(points, batch_size, to) == to

RECURSIVE SumLen(_, _, _)
\* total_written after the first `to` batches
SumLen(points, batch_size, to) ==
    IF to = 0 THEN 0
    ELSE SumLen(points, batch_size, to - 1) + Len(Batch(points, batch_size, to))

NoOp ==
    [op |-> "none", docs |-> <<>>, batch_size |-> 0, ids |-> None, filters |-> None,
     query_embedding |-> None, top_k |-> 0, score_threshold |-> None,
     status |-> "none", ret |-> 0, upserts |-> 0, applied |-> FALSE, before |-> {}]

\* failAt = 0: every upsert succeeds; failAt = j: the j-th upsert raises;
\* applied: whether the server had stored the failing batch before the error
write_documents(documents, batch_size, failAt, applied) ==
    /\ lastOp.op = "none"
    /\ UNCHANGED <<queryVars, docsVars, cacheVars>>
    /\ LET points == PointsOf(documents)
           n == NumBatches(points, batch_size)
           base == [NoOp EXCEPT !.op = "write", !.docs = documents,
                                !.batch_size = batch_size, !.before = collection]
       IN
       IF documents = <<>> \/ points = <<>> THEN
            /\ failAt = 0 /\ ~applied
            /\ lastOp' = [base EXCEPT !.status = "ok", !.ret = 0]
            /\ UNCHANGED collection
       ELSE IF failAt = 0 THEN
            /\ ~applied
            /\ collection' = UpsertBatches(collection, points, batch_size, n)
            /\ lastOp' = [base EXCEPT !.status = "ok", !.upserts = n,
                                      !.ret = SumLen(points, batch_size, n)]
       ELSE
            /\ failAt <= n
            /\ collection' =
                  LET done == UpsertBatches(collection, points, batch_size, failAt - 1)
                  IN IF applied THEN Upsert(done, Batch(points, batch_size, failAt))
                     ELSE done
            /\ lastOp' = [base EXCEPT !.status = "raised", !.upserts = failAt,
                                      !.applied = applied]

(***************************************************************************)
(* QdrantDocumentStore.delete_documents (store.py:234-295).                *)
(***************************************************************************)
\* Python truthiness of an Optional[list] / Optional[dict] argument
Truthy(o) == ~IsNone(o) /\ DOMAIN Val(o) # {}

\* store.py:266, the value returned after a deletion by id list
DeletedCountDistinct(document_ids) == Cardinality(Range(document_ids))

DeletedCount(document_ids) == Len(document_ids)

\* store.py:289, the value returned after a deletion by filter
UnknownCount == -1

DeletePointIds(document_ids) ==
    [i \in 1..Len(document_ids) |-> DeletePointId(document_ids[i])]

delete_documents(document_ids, filters, fails) ==
    /\ lastOp.op = "none"
    /\ UNCHANGED <<queryVars, docsVars, cacheVars>>
    /\ LET base == [NoOp EXCEPT !.op = "delete", !.ids = document_ids,
                                !.filters = filters, !.before = collection]
       IN
       IF Truthy(document_ids) THEN
            IF fails THEN
                /\ lastOp' = [base EXCEPT !.status = "raised"]
                /\ UNCHANGED collection
            ELSE
                /\ collection' = DeleteByIds(collection, DeletePointIds(Val(document_ids)))
                /\ lastOp' = [base EXCEPT !.status = "ok", !.ret = DeletedCount(Val(document_ids))]
       ELSE IF Truthy(filters) THEN
            IF fails THEN
                /\ lastOp' = [base EXCEPT !.status = "raised"]
                /\ UNCHANGED collection
            ELSE
                /\ collection' = DeleteByFilter(collection, Val(filters))
                /\ lastOp' = [base EXCEPT !.status = "ok", !.ret = UnknownCount]
       ELSE
            /\ ~fails
            /\ lastOp' = [base EXCEPT !.status = "ok", !.ret = 0]
            /\ UNCHANGED collection

(***************************************************************************)
(* QdrantDocumentStore.count_documents (store.py:297-304).                 *)
(***************************************************************************)
count_documents(fails) ==
    /\ lastOp.op = "none"
    /\ lastOp' = IF fails THEN [NoOp EXCEPT !.op = "count", !.status = "raised",
                                            !.before = collection]
                 ELSE [NoOp EXCEPT !.op = "count", !.status = "ok",
                                   !.ret = PointsCount(collection), !.before = collection]
    /\ UNCHANGED collection
    /\ UNCHANGED <<queryVars, docsVars, cacheVars>>

\* the caller has taken the result of the call; the adapter is ready for the next one
Return ==
    /\ lastOp.op # "none"
    /\ lastOp' = NoOp
    /\ UNCHANGED collection
    /\ UNCHANGED <<queryVars, docsVars, cacheVars>>

(***************************************************************************)
(* The inputs of the adapter calls.                                        *)
(***************************************************************************)
OptFilters ==
    {None} \cup {Some(f) : f \in {EmptyDict, [category |-> "tech"], [category |-> "art"],
                                  [doc_id |-> "doc1"]}}

Write ==
    /\ lastOp.op = "none"
    /\ \E documents \in SeqsUpTo(Documents, MaxDocs), batch_size \in BatchSizes,
       failAt \in 0..MaxDocs, applied \in BOOLEAN :
        write_documents(documents, batch_size, failAt, applied)

Delete ==
    /\ lastOp.op = "none"
    /\ \E document_ids \in {None} \cup {Some(l) : l \in SeqsUpTo(DocIds \cup OtherIds, MaxIds)},
          filters \in OptFilters, fails \in BOOLEAN :
        delete_documents(document_ids, filters, fails)

Count ==
    /\ lastOp.op = "none"
    /\ \E fails \in BOOLEAN : count_documents(fails)

\* no documents or health request is in progress
NoApi ==
    [op |-> "none", status |-> 0, arg |-> None, all |-> FALSE, stage |-> "none",
     doc |-> None, chunks |-> <<>>, failed |-> "none",
     document_id |-> None, chunk_count |-> 0, deleted_count |-> None,
     count |-> 0, error |-> None, before |-> {}, built |-> 0]

\* a QdrantDocumentStore constructed against a server without the collection
(***************************************************************************)
(* The threads that call get_text_embedder, get_document_store             *)
(* (retrieval.py:54-85) or the constructor QdrantDocumentStore             *)
(* (store.py:37-75, 316-319).                                              *)
(***************************************************************************)
Threads == 1..MaxThreads

\* the frame of a thread that is in no call
NoCall == [fn |-> "none", pc |-> "idle", hit |-> FALSE, obj |-> None, ret |-> None,
           exc |-> None, settled |-> FALSE, epoch |-> 0]

\* no thread is in a call, no embedder has been built
InitCacheVars ==
    /\ calls = [t \in Threads |-> NoCall]
    /\ embedders = 0
    /\ made = [embedder |-> 0, store |-> 0, resets |-> 0]
    /\ raced = FALSE
    /\ started = 0

InitStore ==
    /\ collection = {}
    /\ lastOp = NoOp
    /\ run = [entry |-> "none", pc |-> "idle", query |-> <<>>, top_k |-> 0,
              embedAttempts |-> 0, searchAttempts |-> 0, genCalls |-> 0,
              embedding |-> None, documents |-> <<>>, token_count |-> 0, chunks |-> 0,
              replies |-> None, timing |-> EmptyDict, exc |-> None, failed |-> "none"]
    /\ events = <<>>
    /\ sse = <<>>
    /\ outcome = [kind |-> "none"]
    /\ http = [body |-> None, status |-> 0, detail |-> None, content |-> None]
    /\ cached_embedder = None
    /\ cached_document_store = None
    /\ exists = TRUE
    /\ constructed = 1
    /\ api = NoApi
    /\ created = {}
    /\ reading = <<>>
    /\ InitCacheVars

(***************************************************************************)
(* Settings (src/src/config/settings.py).                                  *)
(***************************************************************************)
retrieval_top_k == 5
\* min_similarity_score = 0.5, in hundredths
min_similarity_score == 50

(***************************************************************************)
(* QdrantDocumentStore.search (store.py:170-232).                          *)
(***************************************************************************)
\* cosine similarity of the query vector and a stored vector, in hundredths:
\* "vx" and "vy" are orthogonal unit vectors and "vxy" lies halfway between them
Score(q, v) ==
    IF q = v THEN 100
    ELSE IF q = "vxy" \/ v = "vxy" THEN 71
    ELSE 0

\* client.query_points returning every point that passes, whatever the limit
QueryPointsNoLimit(coll, query, limit, query_filter, score_threshold) ==
    LET cands == {p \in coll :
                    /\ IsNone(query_filter) \/ Matches(p.payload, Val(query_filter))
                    /\ IsNone(score_threshold) \/ Score(query, p.vector) >= Val(score_threshold)}
        n == Cardinality(cands)
    IN { r \in [1..n -> cands] :
            \A i, k \in 1..n : i < k =>
                  /\ r[i] # r[k]
                  /\ Score(query, r[i].vector) >= Score(query, r[k].vector) }

\* client.query_points(...).points: the `limit` best points that pass the filter
\* and the score threshold, best first; the order of equal scores is the server's
QueryPoints(coll, query, limit, query_filter, score_threshold) ==
    LET cands == {p \in coll :
                    /\ IsNone(query_filter) \/ Matches(p.payload, Val(query_filter))
                    /\ IsNone(score_threshold) \/ Score(query, p.vector) >= Val(score_threshold)}
        n == Min(limit, Cardinality(cands))
    IN { r \in [1..n -> cands] :
            /\ \A i, k \in 1..n : i < k =>
                  /\ r[i] # r[k]
                  /\ Score(query, r[i].vector) >= Score(query, r[k].vector)
            /\ \A p \in cands \ Range(r) : \A i \in 1..n :
                  Score(query, p.vector) <= Score(query, r[i].vector) }

\* a search that passes no filter to the server
QdrantFilterIgnored(filters) == None

\* store.py:190-201
QdrantFilter(filters) ==
    IF Truthy(filters) THEN Some(Val(filters)) ELSE None

\* store.py:217-229
ToDocument(query, point) ==
    [id |-> DictGet(point.payload, "doc_id", None),
     content |-> DictGet(point.payload, "content", ""),
     meta |-> [k \in (DOMAIN point.payload) \ {"content", "doc_id"} |-> point.payload[k]],
     score |-> Score(query, point.vector)]

\* the lists of documents a successful search may return
search(coll, query_embedding, top_k, filters, score_threshold) ==
    { [i \in DOMAIN r |-> ToDocument(query_embedding, r[i])] :
        r \in QueryPoints(coll, query_embedding, top_k, QdrantFilter(filters), score_threshold) }

\* one call of the adapter's search: it returns one of the lists above, or raises
\* what client.query_points raised (store.py:212-214)
search_documents(query_embedding, top_k, filters, score_threshold, fails) ==
    /\ UNCHANGED <<collection, queryVars, docsVars, cacheVars>>
    /\ LET base == [NoOp EXCEPT !.op = "search", !.query_embedding = Some(query_embedding),
                                !.top_k = top_k, !.filters = filters,
                                !.score_threshold = score_threshold,
                                !.before = collection]
       IN
       IF fails THEN lastOp' = [base EXCEPT !.status = "raised"]
       ELSE \E documents \in search(collection, query_embedding, top_k, filters,
                                     score_threshold) :
                lastOp' = [base EXCEPT !.status = "ok", !.ret = documents]

Search ==
    /\ lastOp.op = "none"
    /\ \E query_embedding \in {"vx", "vxy"}, top_k \in (1..MaxTopK) \cup {retrieval_top_k},
          filters \in OptFilters \cup {Some([category |-> "art", doc_id |-> "doc1"])},
          score_threshold \in {None, Some(min_similarity_score)},
          fails \in BOOLEAN :
            search_documents(query_embedding, top_k, filters, score_threshold, fails)

NextStore == Write \/ Delete \/ Count \/ Search \/ Return

SpecStore == InitStore /\ [][NextStore]_vars

(***************************************************************************)
(* Exceptions.                                                             *)
(***************************************************************************)
\* the base class of each exception class the providers raise
Base(cls) ==
    CASE cls = "APITimeoutError" -> "APIConnectionError"
      [] cls = "APIConnectionError" -> "APIError"
      [] cls = "APIError" -> "OpenAIError"
      [] OTHER -> "Exception"

RECURSIVE IsSubclass(_, _)
IsSubclass(cls, parent) ==
    \/ cls = parent
    \/ cls # "Exception" /\ IsSubclass(Base(cls), parent)

IsInstance(e, cls) == IsSubclass(e.cls, cls)

ExcMsgs == {"m1", "m2"}
ProviderErrors ==
    [cls : {"APIError", "APIConnectionError", "APITimeoutError", "ValueError"}, msg : ExcMsgs]
StoreErrors == [cls : {"UnexpectedResponse"}, msg : ExcMsgs]

\* retrieval.py:102, retry_if_exception_type((openai.APIError, openai.APIConnectionError))
RetryNever(e) == FALSE

RetryEmbedding(e) == IsInstance(e, "APIError") \/ IsInstance(e, "APIConnectionError")

\* a search call that is never attempted again
RetrySearchNever(e) == FALSE

\* retrieval.py:113, retry_if_exception_type(Exception)
RetrySearch(e) == IsInstance(e, "Exception")

\* retrieval.py:100 and retrieval.py:111, stop_after_attempt
EmbedStopAfterAttempt == 3
SearchStopAfterAttempt == 2

\* a stop condition that allows one attempt more than stop_after_attempt
ShouldRetryOnceMore(retryable, attempt_number, stop_after) ==
    retryable /\ attempt_number <= stop_after

\* tenacity with reraise=True: after a failed attempt, try again or re-raise
ShouldRetry(retryable, attempt_number, stop_after) ==
    retryable /\ attempt_number < stop_after

\* an SDK in which openai.Timeout would be an exception class
OpenAITimeoutIsCatchable == TRUE

\* retrieval.py:348, `except openai.Timeout`: openai.Timeout is the httpx.Timeout
\* configuration class of the SDK that provides openai.OpenAI, not an exception
\* class, so matching any exception against the clause raises TypeError
OpenAITimeoutIsExceptionClass == FALSE

(***************************************************************************)
(* POST /query (query.py, schemas/query.py) and the retrieval pipelines    *)
(* (retrieval.py).                                                         *)
(***************************************************************************)
\* the characters str.strip() removes, those for which str.isspace() holds; a
\* character that has no escape in a string is written as its code point
Whitespace ==
    {" ", "\t", "\n", "\r", "\f", "U+000B", "U+001C", "U+001D", "U+001E", "U+001F",
     "U+0085", "U+00A0", "U+1680", "U+2000", "U+2001", "U+2002", "U+2003", "U+2004",
     "U+2005", "U+2006", "U+2007", "U+2008", "U+2009", "U+200A", "U+2028", "U+2029",
     "U+202F", "U+205F", "U+3000"}

RECURSIVE LStrip(_)
LStrip(s) == IF s # <<>> /\ Head(s) \in Whitespace THEN LStrip(Tail(s)) ELSE s

RECURSIVE RStrip(_)
RStrip(s) ==
    IF s # <<>> /\ s[Len(s)] \in Whitespace THEN RStrip(SubSeq(s, 1, Len(s) - 1)) ELSE s

\* str.strip()
StripNothing(s) == s

Strip(s) == RStrip(LStrip(s))

\* a QueryRequest that declares the stream field the handler reads
QueryRequestFieldsWithStream == {"query", "top_k", "filters", "stream"}

\* schemas/query.py:4-7, the fields a parsed QueryRequest has
QueryRequestFields == {"query", "top_k", "filters"}

\* pydantic keeps the declared fields of the JSON body and drops the others
QueryRequest(body) == [f \in QueryRequestFields |-> body[f]]

HasAttr(obj, name) == name \in DOMAIN obj

NoRun ==
    [entry |-> "none", pc |-> "idle", query |-> <<>>, top_k |-> 0,
     embedAttempts |-> 0, searchAttempts |-> 0, genCalls |-> 0,
     embedding |-> None, documents |-> <<>>, token_count |-> 0, chunks |-> 0,
     replies |-> None, timing |-> EmptyDict, exc |-> None, failed |-> "none"]

NoOutcome == [kind |-> "none"]
NoHttp == [body |-> None, status |-> 0, detail |-> None, content |-> None]

Idle == run.pc = "idle" /\ lastOp.op = "none"

\* retrieval.py:141-142 and retrieval.py:242-243
EffectiveTopK(top_k) == IF IsNone(top_k) THEN retrieval_top_k ELSE Val(top_k)

Begin(entry, query, top_k) ==
    [NoRun EXCEPT !.entry = entry, !.pc = "embed", !.query = query,
                  !.top_k = EffectiveTopK(top_k)]

OverSSE(entry) == entry \in {"sse", "http_sse"}

\* a pipeline that never takes the streaming branch after the search
IsStreamingNever(entry) == FALSE

\* the entries that run retrieve_documents_streaming, retrieval.py:226
IsStreaming(entry) == entry \in {"streaming", "sse", "http_sse"}

\* query.py:46-52
InternalErrorEvent == [type |-> "error", error |-> <<"Internal server error">>]

\* query.py:15-44, one iteration of the loop over the pipeline's events: the SSE
\* events so far and whether the loop goes on; a missing key raises KeyError,
\* which the handler at query.py:46 turns into the generic error event
SseStep(sent, chunk) ==
    CASE chunk.type = "documents" ->
            IF "documents" \in DOMAIN chunk
            THEN [sse |-> Append(sent, [type |-> "documents",
                                        count |-> Len(chunk.documents),
                                        metadata |-> chunk.metadata]),
                  continue |-> TRUE]
            ELSE [sse |-> Append(sent, InternalErrorEvent), continue |-> FALSE]
      [] chunk.type = "token" ->
            IF "content" \in DOMAIN chunk
            THEN [sse |-> Append(sent, [type |-> "token", content |-> chunk.content]),
                  continue |-> TRUE]
            ELSE [sse |-> Append(sent, InternalErrorEvent), continue |-> FALSE]
      [] chunk.type = "done" ->
            [sse |-> Append(sent, [type |-> "done"]), continue |-> TRUE]
      [] chunk.type = "error" ->
            [sse |-> Append(sent, [type |-> "error", error |-> chunk.error]),
             continue |-> FALSE]

\* the pipeline generator yields ev and, when resumed, goes on at nextpc; over SSE
\* the consumer may stop, which closes the generator
Yield(r, ev, nextpc) ==
    /\ events' = Append(events, ev)
    /\ IF OverSSE(r.entry)
       THEN LET step == SseStep(sse, ev) IN
            /\ sse' = step.sse
            /\ run' = [r EXCEPT !.pc = IF step.continue THEN nextpc ELSE "closed"]
       ELSE /\ sse' = sse
            /\ run' = [r EXCEPT !.pc = nextpc]
    /\ UNCHANGED <<outcome, http>>

\* query.py:100-104, the response to an exception of the synchronous pipeline
HttpError == [status |-> 500, detail |-> Some("Internal server error"), content |-> None]

\* query.py:92-96
HttpOk(results) ==
    [status |-> 200, detail |-> None,
     content |-> Some([answer |-> results.answer,
                       documents |-> [i \in DOMAIN results.documents |->
                                        [content |-> results.documents[i].content,
                                         score |-> results.documents[i].score]],
                       metadata |-> results.metadata])]

Respond(h, r) == [h EXCEPT !.status = r.status, !.detail = r.detail, !.content = r.content]

\* an exception leaves the pipeline: the synchronous pipeline raises it to its
\* caller (query.py:100 answers 500), the handler at query.py:46 catches what the
\* generator raises
Raise(r, cls, msg) ==
    /\ run' = [r EXCEPT !.pc = "raised"]
    /\ outcome' = [kind |-> "raised", cls |-> cls, msg |-> msg]
    /\ sse' = IF OverSSE(r.entry) THEN Append(sse, InternalErrorEvent) ELSE sse
    /\ http' = IF r.entry = "http_sync" THEN Respond(http, HttpError) ELSE http
    /\ UNCHANGED events

\* retrieval.py:157-159 / 174-176 (synchronous) and 258-264 / 279-285 (streaming)
StageFails(r, prefix, e) ==
    IF IsStreaming(r.entry)
    THEN Yield(r, [type |-> "error", error |-> <<prefix, e.msg>>], "exhausted")
    ELSE Raise(r, "ExternalServiceError", <<prefix, e.msg>>)

(***************************************************************************)
(* Entry points.                                                           *)
(***************************************************************************)
\* retrieval.py:125, retrieve_documents called by the tests or another module
retrieve_documents(query, top_k) ==
    /\ Idle
    /\ run' = Begin("sync", query, top_k)
    /\ UNCHANGED <<events, sse, outcome, http, cached_embedder, cached_document_store>>
    /\ UNCHANGED <<storeVars, docsVars, cacheVars>>

\* retrieval.py:226, retrieve_documents_streaming consumed to its end by its caller
retrieve_documents_streaming(query, top_k) ==
    /\ Idle
    /\ run' = Begin("streaming", query, top_k)
    /\ UNCHANGED <<events, sse, outcome, http, cached_embedder, cached_document_store>>
    /\ UNCHANGED <<storeVars, docsVars, cacheVars>>

\* query.py:12, generate_sse_stream consumed to its end by its caller
generate_sse_stream(query, top_k) ==
    /\ Idle
    /\ run' = Begin("sse", query, top_k)
    /\ UNCHANGED <<events, sse, outcome, http, cached_embedder, cached_document_store>>
    /\ UNCHANGED <<storeVars, docsVars, cacheVars>>

\* query.py:55-104, POST /query with a JSON body that passed schema validation
query_documents(body) ==
    /\ Idle
    /\ LET query_request == QueryRequest(body)
           received == [NoHttp EXCEPT !.body = Some(body)]
       IN
       IF Strip(query_request.query) = <<>> THEN
            \* query.py:70-71
            /\ http' = Respond(received, [status |-> 400,
                                          detail |-> Some("Query cannot be empty"),
                                          content |-> None])
            /\ run' = [NoRun EXCEPT !.entry = "http", !.pc = "responded"]
       ELSE IF ~HasAttr(query_request, "stream") THEN
            \* query.py:74 raises AttributeError outside the try block; the
            \* server answers 500 without a JSON body
            /\ http' = Respond(received, [status |-> 500, detail |-> None,
                                          content |-> None])
            /\ run' = [NoRun EXCEPT !.entry = "http", !.pc = "responded"]
       ELSE IF query_request.stream = Some(TRUE) THEN
            \* query.py:75-83
            /\ http' = Respond(received, [status |-> 200, detail |-> None,
                                          content |-> None])
            /\ run' = Begin("http_sse", query_request.query, query_request.top_k)
       ELSE
            \* query.py:86-90
            /\ http' = received
            /\ run' = Begin("http_sync", query_request.query, query_request.top_k)
    /\ UNCHANGED <<events, sse, outcome, cached_embedder, cached_document_store>>
    /\ UNCHANGED <<storeVars, docsVars, cacheVars>>

(***************************************************************************)
(* Stage 1, retrieval.py:151-159 and 252-264: one attempt of the embedding *)
(* call under the retry decorator of retrieval.py:99-107.                  *)
(***************************************************************************)
QueryVectors == {"vx", "vxy"}

\* round((time.time() - start) * 1000, 2): the durations the clock can give
Millis == {1, 2}

\* retrieval.py:54-67
get_text_embedder ==
    IF IsNone(cached_embedder) THEN Some("OpenAITextEmbedder") ELSE cached_embedder

EmbedAttempt ==
    /\ run.pc = "embed"
    /\ cached_embedder' = get_text_embedder
    /\ UNCHANGED <<cached_document_store, storeVars, docsVars, cacheVars>>
    /\ LET r == [run EXCEPT !.embedAttempts = @ + 1] IN
       \/ \E v \in QueryVectors, embedding_ms \in Millis :
            /\ run' = [r EXCEPT !.pc = "get_store", !.embedding = Some(v),
                                !.timing = DictMerge(@, [embedding_ms |-> embedding_ms])]
            /\ UNCHANGED <<events, sse, outcome, http>>
       \/ \E e \in ProviderErrors :
            IF ShouldRetry(RetryEmbedding(e), r.embedAttempts, EmbedStopAfterAttempt)
            THEN /\ run' = [r EXCEPT !.exc = Some(e)]
                 /\ UNCHANGED <<events, sse, outcome, http>>
            ELSE StageFails([r EXCEPT !.exc = Some(e), !.failed = "embedding"],
                            "Failed to generate embedding: ", e)

(***************************************************************************)
(* Stage 2, retrieval.py:164-176 and 269-285: the cached adapter, then one *)
(* attempt of the search call under the retry decorator of 110-122.        *)
(***************************************************************************)
\* retrieval.py:70-85: the adapter is constructed when none is cached, and the
\* construction fails when the server cannot be reached (store.py:97-99)
GetStore ==
    /\ run.pc = "get_store"
    /\ UNCHANGED <<cached_embedder, storeVars, api, created, reading, cacheVars>>
    /\ IF ~IsNone(cached_document_store)
       THEN /\ run' = [run EXCEPT !.pc = "search"]
            /\ UNCHANGED <<events, sse, outcome, http, cached_document_store>>
            /\ UNCHANGED <<exists, constructed>>
       ELSE \/ /\ cached_document_store' = Some("QdrantDocumentStore")
               /\ constructed' = constructed + 1
               /\ exists' = TRUE
               /\ run' = [run EXCEPT !.pc = "search"]
               /\ UNCHANGED <<events, sse, outcome, http>>
            \/ /\ UNCHANGED <<cached_document_store, exists, constructed>>
               /\ \E e \in StoreErrors :
                    StageFails([run EXCEPT !.exc = Some(e), !.failed = "search"],
                               "Failed to search documents: ", e)

SearchAttempt ==
    /\ run.pc = "search"
    /\ UNCHANGED <<cached_embedder, cached_document_store, storeVars, docsVars, cacheVars>>
    /\ LET r == [run EXCEPT !.searchAttempts = @ + 1] IN
       \/ \E documents \in search(collection, Val(run.embedding), run.top_k, None,
                                  Some(min_similarity_score)), search_ms \in Millis :
            /\ run' = [r EXCEPT !.documents = documents,
                                !.timing = DictMerge(@, [search_ms |-> search_ms]),
                                !.pc = IF IsStreaming(r.entry) THEN "yield_documents"
                                       ELSE "generate"]
            /\ UNCHANGED <<events, sse, outcome, http>>
       \/ \E e \in StoreErrors :
            IF ShouldRetry(RetrySearch(e), r.searchAttempts, SearchStopAfterAttempt)
            THEN /\ run' = [r EXCEPT !.exc = Some(e)]
                 /\ UNCHANGED <<events, sse, outcome, http>>
            ELSE StageFails([r EXCEPT !.exc = Some(e), !.failed = "search"],
                            "Failed to search documents: ", e)

(***************************************************************************)
(* Stage 3 of retrieve_documents, retrieval.py:181-223.                    *)
(***************************************************************************)
Replies == {<<>>, <<"r1">>, <<"r1", "r2">>}

\* an answer taken from the last completion instead of the first
ResultsLastReply(r, replies) ==
    [query |-> r.query,
     documents |-> r.documents,
     answer |-> IF replies # <<>> THEN replies[Len(replies)] ELSE "No answer generated",
     metadata |-> DictMerge([num_documents_retrieved |-> Len(r.documents),
                             top_k |-> r.top_k], r.timing)]

\* retrieval.py:211-220
Results(r, replies) ==
    [query |-> r.query,
     documents |-> r.documents,
     answer |-> IF replies # <<>> THEN replies[1] ELSE "No answer generated",
     metadata |-> DictMerge([num_documents_retrieved |-> Len(r.documents),
                             top_k |-> r.top_k], r.timing)]

Generate ==
    /\ run.pc = "generate"
    /\ UNCHANGED <<cached_embedder, cached_document_store, storeVars, docsVars, cacheVars>>
    /\ LET r == [run EXCEPT !.genCalls = @ + 1] IN
       \/ \E replies \in Replies, generation_ms \in Millis, total_ms \in Millis :
            LET timed == [r EXCEPT !.timing = DictMerge(@, [generation_ms |-> generation_ms,
                                                              total_ms |-> total_ms])] IN
            /\ run' = [timed EXCEPT !.pc = "returned", !.replies = Some(replies)]
            /\ outcome' = [kind |-> "returned", value |-> Results(timed, replies)]
            /\ http' = IF r.entry = "http_sync"
                       THEN Respond(http, HttpOk(Results(timed, replies))) ELSE http
            /\ UNCHANGED <<events, sse>>
       \/ \E e \in ProviderErrors :
            Raise([r EXCEPT !.exc = Some(e), !.failed = "generation"],
                  "ExternalServiceError", <<"Failed to generate answer: ", e.msg>>)

(***************************************************************************)
(* retrieve_documents_streaming after the search, retrieval.py:287-359.    *)
(***************************************************************************)
\* retrieval.py:288-296
YieldDocuments ==
    /\ run.pc = "yield_documents"
    /\ UNCHANGED <<cached_embedder, cached_document_store, storeVars, docsVars, cacheVars>>
    /\ Yield(run, [type |-> "documents", data |-> run.documents,
                   metadata |-> DictMerge([num_documents_retrieved |-> Len(run.documents),
                                           top_k |-> run.top_k], run.timing)],
             "create_stream")

\* retrieval.py:348-359, an exception inside the try block of retrieval.py:301
GenerationFails(r, e) ==
    IF ~OpenAITimeoutIsExceptionClass
    THEN Raise(r, "TypeError",
               <<"catching classes that do not inherit from BaseException is not allowed">>)
    ELSE IF IsInstance(e, "Timeout")
    THEN Yield(r, [type |-> "error", error |-> <<"LLM generation timed out: ", e.msg>>],
               "exhausted")
    ELSE Yield(r, [type |-> "error", error |-> <<"Failed to stream answer: ", e.msg>>],
               "exhausted")

\* retrieval.py:302-324, the prompt and client.chat.completions.create
CreateStream ==
    /\ run.pc = "create_stream"
    /\ UNCHANGED <<cached_embedder, cached_document_store, storeVars, docsVars, cacheVars>>
    /\ LET r == [run EXCEPT !.genCalls = @ + 1] IN
       \/ /\ run' = [r EXCEPT !.pc = "iterate"]
          /\ UNCHANGED <<events, sse, outcome, http>>
       \/ \E e \in ProviderErrors :
            GenerationFails([r EXCEPT !.exc = Some(e), !.failed = "generation"], e)

Tokens == {"t1", "t2"}

\* retrieval.py:327-347, one step of the loop over the provider's stream
NextChunk ==
    /\ run.pc = "iterate"
    /\ UNCHANGED <<cached_embedder, cached_document_store, storeVars, docsVars, cacheVars>>
    /\ \/ \* a chunk whose delta carries text
          /\ run.chunks < MaxChunks
          /\ \E t \in Tokens :
                Yield([run EXCEPT !.chunks = @ + 1, !.token_count = @ + 1],
                      [type |-> "token", data |-> t], "iterate")
       \/ \* a chunk whose delta.content is None
          /\ run.chunks < MaxChunks
          /\ run' = [run EXCEPT !.chunks = @ + 1]
          /\ UNCHANGED <<events, sse, outcome, http>>
       \/ \* the stream ends
          \E generation_ms \in Millis, total_ms \in Millis :
            LET timed == [run EXCEPT !.timing = DictMerge(@, [generation_ms |-> generation_ms,
                                                              total_ms |-> total_ms])] IN
            Yield(timed, [type |-> "done",
                          metadata |-> DictMerge([tokens_streamed |-> run.token_count],
                                                 timed.timing)],
                  "exhausted")
       \/ \* the provider fails while the stream is read
          \E e \in ProviderErrors :
            GenerationFails([run EXCEPT !.exc = Some(e), !.failed = "generation"], e)

\* the caller has taken the result of the call; the next call can start
Complete ==
    /\ run.pc \in {"returned", "raised", "exhausted", "closed", "responded"}
    /\ run' = NoRun
    /\ events' = <<>>
    /\ sse' = <<>>
    /\ outcome' = NoOutcome
    /\ http' = NoHttp
    /\ UNCHANGED <<cached_embedder, cached_document_store, storeVars, docsVars, cacheVars>>

(***************************************************************************)
(* The inputs of the retrieval calls.                                      *)
(***************************************************************************)
QueryChars == {" ", "\r", "q"}
\* the query of a request body, which the boundary inspects
Queries == SeqsUpTo(QueryChars, MaxQueryLen)
\* the query of a direct pipeline call, which the pipeline only passes on
PipelineQueries == SeqsUpTo({"q"}, MaxQueryLen - 1)
OptTopK == {None} \cup {Some(k) : k \in 1..MaxTopK}
Bodies_Query ==
    [query : Queries, top_k : OptTopK, stream : {None, Some(TRUE), Some(FALSE)},
     filters : {None, Some([category |-> "tech"])}]

\* the collections the service can find on the server when it starts
StoredCollections ==
    LET StoredDocuments ==
            {d \in Documents : \/ d.id = "doc1" /\ d.embedding = Some("vx")
                               \/ d.id = "doc2" /\ d.embedding = Some("vy")}
    IN {Upsert({}, PointsOf(l)) : l \in SeqsUpTo(StoredDocuments, MaxStored)}

CallSync ==
    /\ Idle
    /\ \E query \in PipelineQueries, top_k \in OptTopK : retrieve_documents(query, top_k)
CallStreaming ==
    /\ Idle
    /\ \E query \in PipelineQueries, top_k \in OptTopK :
            retrieve_documents_streaming(query, top_k)
CallSSE ==
    /\ Idle
    /\ \E query \in PipelineQueries, top_k \in OptTopK : generate_sse_stream(query, top_k)
PostQuery ==
    /\ Idle
    /\ \E body \in Bodies_Query : query_documents(body)

InitQueryVars ==
    /\ run = NoRun
    /\ events = <<>>
    /\ sse = <<>>
    /\ outcome = NoOutcome
    /\ http = NoHttp
    /\ cached_embedder = None
    /\ cached_document_store = None

\* the process has served no documents request and has built no adapter
InitDocsVars ==
    /\ exists = TRUE
    /\ constructed = 0
    /\ api = NoApi
    /\ created = {}
    /\ reading = <<>>

Init ==
    /\ collection \in StoredCollections
    /\ lastOp = NoOp
    /\ InitQueryVars
    /\ InitDocsVars
    /\ InitCacheVars

Next ==
    \/ CallSync \/ CallStreaming \/ CallSSE \/ PostQuery
    \/ EmbedAttempt \/ GetStore \/ SearchAttempt \/ Generate
    \/ YieldDocuments \/ CreateStream \/ NextChunk
    \/ Complete

Spec == Init /\ [][Next]_vars

(***************************************************************************)
(* The indexing pipeline (src/src/pipelines/indexing.py) and the handlers  *)
(* of /documents and /health (src/src/api/routes/documents.py, health.py). *)
(* documents.get_document_store is store.get_document_store, which builds  *)
(* a new QdrantDocumentStore on every call (store.py:316-319).             *)
(***************************************************************************)
\* the most chunks the splitter cuts one document into
MaxSplits == 2
\* the most adapters one run of the process builds
MaxAdapters == 3
\* the most uploads that wait for their file at one time
MaxReading == 1

\* str(uuid.uuid4()) of documents.py:53
Uuids == {"u1", "u2"}

\* the id DocumentSplitter gives the i-th chunk of a document: a hash that
\* differs from the id of the document
SplitId(source_id, i) == source_id \o "#" \o ToString(i)

\* indexing.py:40-44, DocumentSplitter cutting one document into n chunks; every
\* chunk is a new Document whose meta carries the id of the document it comes from
SplitOne(doc, n) ==
    [i \in 1..n |->
        [id |-> SplitId(doc.id, i), content |-> doc.content, embedding |-> None,
         meta |-> DictMerge(doc.meta, [source_id |-> doc.id])]]

RECURSIVE Splitter(_, _)
\* the chunks of a list of documents, cuts[i] being the number of chunks of the i-th
Splitter(documents, cuts) ==
    IF documents = <<>> THEN <<>>
    ELSE SplitOne(Head(documents), Head(cuts)) \o Splitter(Tail(documents), Tail(cuts))

\* indexing.py:46-49, OpenAIDocumentEmbedder: the chunks go to the provider in
\* requests of EmbedderBatchSize chunks each. vectors gives the embedding of a
\* text; failed holds the requests the provider refused and the component only
\* logged, whose chunks are handed on as they came, without an embedding
Embedder(chunks, vectors, failed) ==
    [i \in DOMAIN chunks |->
        IF ((i - 1) \div EmbedderBatchSize) + 1 \in failed THEN chunks[i]
        ELSE [chunks[i] EXCEPT !.embedding = Some(vectors[chunks[i].content])]]

\* indexing.py:51, DocumentWriter handing the chunks to write_documents with the
\* default batch size (store.py:101-168); failAt and applied as in write_documents
Writer(coll, documents, failAt, applied) ==
    LET points == PointsOf(documents)
        n == NumBatches(points, DefaultBatchSize)
    IN IF documents = <<>> \/ points = <<>> THEN
            [raised |-> FALSE, collection |-> coll, documents_written |-> 0]
       ELSE IF failAt = 0 THEN
            [raised |-> FALSE,
             collection |-> UpsertBatches(coll, points, DefaultBatchSize, n),
             documents_written |-> SumLen(points, DefaultBatchSize, n)]
       ELSE [raised |-> TRUE,
             collection |->
                LET done == UpsertBatches(coll, points, DefaultBatchSize, failAt - 1)
                IN IF applied THEN Upsert(done, Batch(points, DefaultBatchSize, failAt))
                   ELSE done,
             documents_written |-> 0]

\* store.py:234-295 as the handlers call it: the collection after the call, the
\* value returned, and whether the call raised
DeleteResult(coll, document_ids, filters, fails) ==
    IF Truthy(document_ids) THEN
        IF fails THEN [raised |-> TRUE, collection |-> coll, ret |-> 0]
        ELSE [raised |-> FALSE,
              collection |-> DeleteByIds(coll, DeletePointIds(Val(document_ids))),
              ret |-> DeletedCount(Val(document_ids))]
    ELSE IF Truthy(filters) THEN
        IF fails THEN [raised |-> TRUE, collection |-> coll, ret |-> 0]
        ELSE [raised |-> FALSE, collection |-> DeleteByFilter(coll, Val(filters)),
              ret |-> UnknownCount]
    ELSE [raised |-> FALSE, collection |-> coll, ret |-> 0]

\* the handlers answer one request at a time
ApiIdle == api.op = "none" /\ lastOp.op = "none" /\ run.pc = "idle"

\* raise HTTPException(status_code, detail) and the JSON bodies of the responses
ApiRespond(a, status_code) == [a EXCEPT !.status = status_code, !.stage = "responded"]

\* store.py:37-75, QdrantDocumentStore(): a new adapter, whose constructor
\* creates the collection when the server does not have it
NewStore ==
    /\ constructed' = constructed + 1
    /\ exists' = TRUE

(***************************************************************************)
(* POST /documents (documents.py:39-79) and the run of the indexing        *)
(* pipeline it starts (indexing.py:66-78).                                 *)
(***************************************************************************)
\* documents.py:45-60: the content is checked and the Document is built
create_document(content, metadata, doc_id) ==
    /\ UNCHANGED <<storeVars, queryVars, cacheVars, reading, exists, constructed, created>>
    /\ LET a == [NoApi EXCEPT !.op = "create", !.arg = Some(content),
                              !.before = collection]
       IN
       IF content = <<>> THEN
            \* DocumentCreateRequest.content has min_length=1
            api' = ApiRespond(a, 422)
       ELSE IF Strip(content) = <<>> THEN
            api' = ApiRespond(a, 400)
       ELSE api' = [a EXCEPT !.stage = "pipeline",
                             !.doc = Some([id |-> doc_id, content |-> content,
                                           embedding |-> None, meta |-> metadata])]

\* indexing.py:33-63, create_indexing_pipeline builds an adapter of its own
create_indexing_pipeline ==
    /\ api.stage = "pipeline"
    /\ UNCHANGED <<storeVars, queryVars, cacheVars, reading, created>>
    /\ \/ /\ NewStore
          /\ api' = [api EXCEPT !.stage = "split", !.built = @ + 1]
       \/ /\ UNCHANGED <<exists, constructed>>
          /\ api' = ApiRespond([api EXCEPT !.failed = "construct"], 500)

\* a text of so many words that DocumentSplitter cuts it into one chunk more
\* than an embedding request holds
LongText == <<"w", "w">>

\* the numbers of chunks DocumentSplitter can cut a text into (indexing.py:40-44)
SplitCounts(content) ==
    IF content = LongText THEN {EmbedderBatchSize + 1} ELSE 1..MaxSplits

\* the splitter component of pipeline.run
Split ==
    /\ api.stage = "split"
    /\ UNCHANGED <<storeVars, queryVars, cacheVars, reading, exists, constructed, created>>
    /\ \E n \in SplitCounts(Val(api.doc).content) :
        api' = [api EXCEPT !.stage = "embed",
                           !.chunks = Splitter(<<Val(api.doc)>>, <<n>>)]

ChunkVectors == {"vx", "vy"}

\* the embedder component of pipeline.run. The component is not part of the
\* repository and its version is not fixed by it: a refused embedding request
\* either raises out of pipeline.run, or is logged by the component, which then
\* hands every chunk on and leaves the chunks of that request without embedding
Embed ==
    /\ api.stage = "embed"
    /\ UNCHANGED <<storeVars, queryVars, cacheVars, reading, exists, constructed, created>>
    /\ LET n == Len(api.chunks)
           requests == 1..((n + EmbedderBatchSize - 1) \div EmbedderBatchSize)
           texts == {api.chunks[i].content : i \in 1..n}
       IN
       \/ \E vectors \in [texts -> ChunkVectors], failed \in SUBSET requests :
            api' = [api EXCEPT !.stage = "write",
                               !.chunks = Embedder(api.chunks, vectors, failed)]
       \/ api' = ApiRespond([api EXCEPT !.failed = "embedding"], 500)

\* the writer component of pipeline.run, then documents.py:66-72
WriteChunks ==
    /\ api.stage = "write"
    /\ UNCHANGED <<lastOp, queryVars, cacheVars, reading, exists, constructed>>
    /\ \E failAt \in 0..1, applied \in BOOLEAN :
        /\ failAt = 0 => ~applied
        /\ LET result == Writer(collection, api.chunks, failAt, applied) IN
           /\ collection' = result.collection
           /\ IF result.raised
              THEN /\ api' = ApiRespond([api EXCEPT !.failed = "write"], 500)
                   /\ UNCHANGED created
              ELSE /\ api' = ApiRespond([api EXCEPT
                                !.document_id = Some(Val(api.doc).id),
                                !.chunk_count = result.documents_written], 201)
                   /\ created' = created \cup {Val(api.doc).id}

(***************************************************************************)
(* POST /documents/upload (documents.py:89-155): the handler checks the    *)
(* file name, waits for the bytes of the file, and runs the indexing       *)
(* pipeline as POST /documents does.                                       *)
(***************************************************************************)
\* documents.py:29
SUPPORTED_EXTENSIONS == {<<".", "t", "x", "t">>, <<".", "m", "d">>}

\* str.lower() on the characters of the file names
Lower(s) ==
    [i \in DOMAIN s |->
        CASE s[i] = "T" -> "t" [] s[i] = "X" -> "x" [] s[i] = "M" -> "m"
          [] s[i] = "D" -> "d" [] s[i] = "A" -> "a" [] OTHER -> s[i]]

\* filename.split(".")[-1]
AfterLastDot(s) ==
    LET dots == {i \in DOMAIN s : s[i] = "."} IN
    IF dots = {} THEN s
    ELSE SubSeq(s, (CHOOSE i \in dots : \A k \in dots : k <= i) + 1, Len(s))

\* documents.py:98-99
Filename(name) ==
    IF IsNone(name) \/ Val(name) = <<>> THEN <<"u", "n", "k", "n", "o", "w", "n">>
    ELSE Val(name)
Extension(filename) ==
    IF "." \in Range(filename) THEN <<".">> \o Lower(AfterLastDot(filename)) ELSE <<>>

\* bytes.decode("utf-8"): the byte 0xFF is in no UTF-8 text
InvalidByte == "0xFF"
DecodeFails(content) == InvalidByte \in Range(content)

\* documents.py:96-105: the handler up to `await file.read()`
upload_document(name) ==
    /\ UNCHANGED <<storeVars, queryVars, cacheVars, exists, constructed, created>>
    /\ LET filename == Filename(name) IN
       IF Extension(filename) \notin SUPPORTED_EXTENSIONS
       THEN /\ api' = ApiRespond([NoApi EXCEPT !.op = "upload", !.before = collection], 400)
            /\ UNCHANGED reading
       ELSE /\ reading' = Append(reading, [filename |-> filename])
            /\ UNCHANGED api

\* documents.py:107-131: the handler from the return of file.read() to the
\* call of index_documents; content is what the read returns
read_file(i, content, fail, doc_id) ==
    /\ UNCHANGED <<storeVars, queryVars, cacheVars, exists, constructed, created>>
    /\ reading' = [k \in 1..(Len(reading) - 1) |->
                        IF k < i THEN reading[k] ELSE reading[k + 1]]
    /\ LET file == reading[i]
           a == [NoApi EXCEPT !.op = "upload", !.before = collection]
       IN
       IF fail THEN
            \* file.read() raises: documents.py:150-155
            api' = ApiRespond([a EXCEPT !.failed = "read"], 500)
       ELSE IF DecodeFails(content) THEN
            \* documents.py:145-149
            api' = ApiRespond(a, 400)
       ELSE IF Strip(content) = <<>> THEN
            \* documents.py:112-116
            api' = ApiRespond([a EXCEPT !.arg = Some(content)], 400)
       ELSE api' = [a EXCEPT !.arg = Some(content), !.stage = "pipeline",
                             !.doc = Some([id |-> doc_id, content |-> content,
                                           embedding |-> None,
                                           meta |-> [filename |-> file.filename,
                                                     source |-> "file_upload"]])]

(***************************************************************************)
(* DELETE /documents/{document_id} (documents.py:232-264).                 *)
(***************************************************************************)
delete_document(document_id, fail) ==
    /\ UNCHANGED <<lastOp, queryVars, cacheVars, reading, created>>
    /\ LET a == [NoApi EXCEPT !.op = "delete", !.arg = Some(document_id),
                              !.before = collection]
       IN
       IF fail = "construct" THEN
            /\ api' = ApiRespond([a EXCEPT !.failed = fail], 500)
            /\ UNCHANGED <<collection, exists, constructed>>
       ELSE /\ NewStore
            /\ LET result == DeleteResult(collection, Some(<<document_id>>), None,
                                          fail = "delete")
               IN
               /\ collection' = result.collection
               /\ api' =
                    IF result.raised THEN
                        ApiRespond([a EXCEPT !.failed = fail, !.built = 1], 500)
                    ELSE IF result.ret = -1 THEN
                        ApiRespond([a EXCEPT !.document_id = Some(document_id),
                                             !.built = 1], 200)
                    ELSE ApiRespond([a EXCEPT !.built = 1], 404)

(***************************************************************************)
(* DELETE /documents (documents.py:273-316).                               *)
(***************************************************************************)
\* documents.py:303-304, delete_collection() followed by _ensure_collection()
WipeWithoutRecreate ==
    /\ collection' = {}
    /\ exists' = FALSE

Wipe ==
    /\ collection' = {}
    /\ exists' = TRUE

delete_all_documents(all, fail) ==
    /\ UNCHANGED <<lastOp, queryVars, cacheVars, reading, created>>
    /\ LET a == [NoApi EXCEPT !.op = "delete_all", !.all = all, !.before = collection]
           count_before == PointsCount(collection)
       IN
       IF ~all THEN
            /\ api' = ApiRespond(a, 400)
            /\ UNCHANGED <<collection, exists, constructed>>
       ELSE IF fail = "construct" THEN
            /\ api' = ApiRespond([a EXCEPT !.failed = fail], 500)
            /\ UNCHANGED <<collection, exists, constructed>>
       ELSE IF fail = "count" THEN
            /\ NewStore
            /\ api' = ApiRespond([a EXCEPT !.failed = fail, !.built = 1], 500)
            /\ UNCHANGED collection
       ELSE IF count_before = 0 THEN
            /\ NewStore
            /\ api' = ApiRespond([a EXCEPT !.deleted_count = Some(0), !.built = 1], 200)
            /\ UNCHANGED collection
       ELSE IF fail = "delete_collection" THEN
            /\ NewStore
            /\ api' = ApiRespond([a EXCEPT !.failed = fail, !.built = 1], 500)
            /\ UNCHANGED collection
       ELSE IF fail = "ensure_collection" THEN
            \* the collection was dropped and could not be created again
            /\ constructed' = constructed + 1
            /\ exists' = FALSE
            /\ collection' = {}
            /\ api' = ApiRespond([a EXCEPT !.failed = fail, !.built = 1], 500)
       ELSE /\ constructed' = constructed + 1
            /\ Wipe
            /\ api' = ApiRespond([a EXCEPT !.deleted_count = Some(count_before),
                                           !.built = 1], 200)

(***************************************************************************)
(* GET /documents (documents.py:164-223) and GET /health (health.py:34-76).*)
(***************************************************************************)
list_documents(limit, offset, fail) ==
    /\ UNCHANGED <<storeVars, queryVars, cacheVars, reading, created>>
    /\ LET a == [NoApi EXCEPT !.op = "list", !.before = collection]
           total_count == PointsCount(collection)
       IN
       IF fail = "construct" THEN
            /\ api' = ApiRespond([a EXCEPT !.failed = fail], 500)
            /\ UNCHANGED <<exists, constructed>>
       ELSE /\ NewStore
            /\ api' =
                 IF fail \in {"count", "scroll"} /\ (fail = "count" \/ total_count # 0)
                 THEN ApiRespond([a EXCEPT !.failed = fail, !.built = 1], 500)
                 ELSE ApiRespond([a EXCEPT !.count = total_count, !.built = 1], 200)

health_check(fail, e) ==
    /\ UNCHANGED <<storeVars, queryVars, cacheVars, reading, created>>
    /\ LET a == [NoApi EXCEPT !.op = "health", !.before = collection] IN
       IF fail = "construct" THEN
            /\ api' = ApiRespond([a EXCEPT !.failed = fail, !.error = Some(e.msg)], 503)
            /\ UNCHANGED <<exists, constructed>>
       ELSE /\ NewStore
            /\ api' =
                 IF fail = "count"
                 THEN ApiRespond([a EXCEPT !.failed = fail, !.error = Some(e.msg),
                                           !.built = 1], 503)
                 ELSE ApiRespond([a EXCEPT !.count = PointsCount(collection),
                                           !.built = 1], 200)

\* the response has been sent
Answer ==
    /\ api.stage = "responded"
    /\ api' = NoApi
    /\ UNCHANGED <<storeVars, queryVars, cacheVars, reading, exists, constructed, created>>

(***************************************************************************)
(* The requests of the documents and health routes.                        *)
(***************************************************************************)
\* the ids uuid4 has not produced yet
FreshUuids == {u \in Uuids : u \notin created /\ \A p \in collection : p.payload.source_id # u}

CanBuild == ApiIdle /\ constructed < MaxAdapters

UploadDocument ==
    /\ ApiIdle
    /\ Len(reading) < MaxReading
    \* file.filename is None when the part has no file name
    /\ \E name \in {None, Some(<<"a", ".", "M", "D">>), Some(<<"a", ".", "p", "d", "f">>)} :
            upload_document(name)
FileRead ==
    /\ CanBuild
    \* the bytes file.read() returns, and the id uuid4 gives the document
    /\ \E i \in DOMAIN reading, content \in {<<" ">>, <<" ", "w">>, <<InvalidByte>>},
          fail \in BOOLEAN, doc_id \in Uuids :
            /\ (~fail /\ ~DecodeFails(content) /\ Strip(content) # <<>>)
                    => doc_id \in FreshUuids
            /\ read_file(i, content, fail, doc_id)

PostDocuments ==
    /\ CanBuild
    /\ \E content \in {<<>>, <<" ">>, <<"w">>, LongText}, doc_id \in FreshUuids :
       \E metadata \in IF content = LongText THEN {EmptyDict}
                        ELSE {EmptyDict, [category |-> "tech"]} :
            create_document(content, metadata, doc_id)
DeleteDocument ==
    /\ CanBuild
    \* the ids a client may ask to delete: ids of documents and the id of a chunk
    /\ \E document_id \in Uuids \cup {SplitId("u1", 1)}, fail \in {"none", "construct", "delete"} :
            delete_document(document_id, fail)
DeleteAllDocuments ==
    /\ CanBuild
    /\ \E all \in BOOLEAN,
          fail \in {"none", "construct", "count", "delete_collection", "ensure_collection"} :
            delete_all_documents(all, fail)
ListDocuments ==
    /\ CanBuild
    /\ \E limit \in 1..2, offset \in 0..1, fail \in {"none", "construct", "count", "scroll"} :
            list_documents(limit, offset, fail)
HealthCheck ==
    /\ CanBuild
    /\ \E fail \in {"none", "construct", "count"}, e \in StoreErrors : health_check(fail, e)

\* a process that has served no request, with or without the collection on the server
InitDocs ==
    /\ collection = {}
    /\ lastOp = NoOp
    /\ InitQueryVars
    /\ exists \in BOOLEAN
    /\ constructed = 0
    /\ api = NoApi
    /\ created = {}
    /\ reading = <<>>
    /\ InitCacheVars

NextDocs ==
    \/ PostDocuments \/ create_indexing_pipeline \/ Split \/ Embed \/ WriteChunks
    \/ DeleteDocument \/ DeleteAllDocuments \/ ListDocuments \/ HealthCheck
    \/ UploadDocument \/ FileRead
    \/ Answer

SpecDocs == InitDocs /\ [][NextDocs]_vars

(***************************************************************************)
(* The cached get functions of the retrieval module (retrieval.py:48-96)   *)
(* and the adapter's constructor (store.py:37-99), one step per read or    *)
(* write of the module globals and per request to the Qdrant server, so    *)
(* that the calls of several threads interleave.                           *)
(***************************************************************************)
GetFunctions == {"get_text_embedder", "get_document_store"}

InProgress(c) == c.pc \notin {"idle", "done", "raised"}

\* no thread is inside a call
Quiet == \A t \in Threads : ~InProgress(calls[t])

\* the module global a get function reads and writes
CachedOf(fn) == IF fn = "get_text_embedder" THEN cached_embedder ELSE cached_document_store

OthersUnchanged ==
    UNCHANGED <<lastOp, run, events, sse, outcome, http, api, created, reading>>

\* a get function that finds its cache empty at every call
CacheFilledNever(cache) == FALSE

\* retrieval.py:62 and 80, the negation of `if _cached_... is None`
CacheFilled(cache) == ~IsNone(cache)

\* a thread enters get_text_embedder() or get_document_store()
CallGet(t) ==
    /\ ~InProgress(calls[t])
    /\ started < MaxCalls
    /\ \E fn \in GetFunctions :
          calls' = [calls EXCEPT ![t] =
                       [NoCall EXCEPT !.fn = fn, !.pc = "check",
                                      !.settled = Quiet /\ ~IsNone(CachedOf(fn))]]
    /\ started' = started + 1
    /\ raced' = (raced \/ ~Quiet)
    /\ UNCHANGED <<collection, exists, constructed, cached_embedder,
                   cached_document_store, embedders, made>>
    /\ OthersUnchanged

\* a thread enters QdrantDocumentStore(), as store.get_document_store() of
\* store.py:316-319 does for every request of the documents and health routes
CallConstructor(t) ==
    /\ ~InProgress(calls[t])
    /\ started < MaxCalls
    /\ calls' = [calls EXCEPT ![t] = [NoCall EXCEPT !.fn = "QdrantDocumentStore",
                                                    !.pc = "list"]]
    /\ started' = started + 1
    /\ raced' = (raced \/ ~Quiet)
    /\ UNCHANGED <<collection, exists, constructed, cached_embedder,
                   cached_document_store, embedders, made>>
    /\ OthersUnchanged

\* retrieval.py:62 and 80, the test of the global
CheckCache(t) ==
    /\ calls[t].pc = "check"
    /\ LET c == calls[t] IN
       calls' = [calls EXCEPT ![t] =
                    IF CacheFilled(CachedOf(c.fn))
                    THEN [c EXCEPT !.hit = TRUE, !.pc = "return"]
                    ELSE [c EXCEPT !.hit = FALSE,
                                   !.pc = IF c.fn = "get_text_embedder" THEN "construct"
                                          ELSE "list"]]
    /\ UNCHANGED <<collection, exists, constructed, cached_embedder,
                   cached_document_store, embedders, made, raced, started>>
    /\ OthersUnchanged

\* retrieval.py:63-66, the constructor call on the right of the assignment
OpenAITextEmbedder(t) ==
    /\ calls[t].pc = "construct"
    /\ embedders' = embedders + 1
    /\ made' = [made EXCEPT !.embedder = @ + 1]
    /\ calls' = [calls EXCEPT ![t].obj = Some(embedders + 1), ![t].pc = "assign"]
    /\ UNCHANGED <<collection, exists, constructed, cached_embedder,
                   cached_document_store, raced, started>>
    /\ OthersUnchanged

\* the constructor of store.py:37-75 has returned the object to its caller:
\* get_document_store goes on to assign it (retrieval.py:81), a direct caller
\* has it
Constructed(c, number) ==
    IF c.fn = "get_document_store"
    THEN [c EXCEPT !.obj = Some(number), !.pc = "assign"]
    ELSE [c EXCEPT !.obj = Some(number), !.ret = Some(number), !.pc = "done"]

\* store.py:80-83 and 95-96: _ensure_collection lists the collections and
\* finds the name, or goes on to create the collection
get_collections(t) ==
    /\ calls[t].pc = "list"
    /\ IF exists
       THEN /\ constructed' = constructed + 1
            /\ made' = IF calls[t].fn = "get_document_store"
                       THEN [made EXCEPT !.store = @ + 1] ELSE made
            /\ calls' = [calls EXCEPT ![t] = Constructed(calls[t], constructed + 1)]
       ELSE /\ calls' = [calls EXCEPT ![t].pc = "create"]
            /\ UNCHANGED <<constructed, made>>
    /\ UNCHANGED <<collection, exists, cached_embedder, cached_document_store,
                   embedders, raced, started>>
    /\ OthersUnchanged

\* store.py:84-99: create_collection creates the absent collection; the server
\* refuses to create a collection that exists, the client raises, and
\* _ensure_collection logs and raises again out of the constructor
create_collection(t) ==
    /\ calls[t].pc = "create"
    /\ IF ~exists
       THEN /\ exists' = TRUE
            /\ constructed' = constructed + 1
            /\ made' = IF calls[t].fn = "get_document_store"
                       THEN [made EXCEPT !.store = @ + 1] ELSE made
            /\ calls' = [calls EXCEPT ![t] = Constructed(calls[t], constructed + 1)]
       ELSE /\ calls' = [calls EXCEPT ![t].exc = Some("UnexpectedResponse"),
                                      ![t].pc = "raised"]
            /\ UNCHANGED <<exists, constructed, made>>
    /\ UNCHANGED <<collection, cached_embedder, cached_document_store,
                   embedders, raced, started>>
    /\ OthersUnchanged

\* retrieval.py:63 and 81, the assignment to the global
AssignCache(t) ==
    /\ calls[t].pc = "assign"
    /\ IF calls[t].fn = "get_text_embedder"
       THEN cached_embedder' = calls[t].obj /\ UNCHANGED cached_document_store
       ELSE cached_document_store' = calls[t].obj /\ UNCHANGED cached_embedder
    /\ calls' = [calls EXCEPT ![t].pc = "return"]
    /\ UNCHANGED <<collection, exists, constructed, embedders, made, raced, started>>
    /\ OthersUnchanged

\* retrieval.py:67 and 85, `return _cached_...` reads the global
ReturnCached(t) ==
    /\ calls[t].pc = "return"
    /\ calls' = [calls EXCEPT ![t].ret = CachedOf(calls[t].fn), ![t].pc = "done",
                              ![t].epoch = made.resets]
    /\ UNCHANGED <<collection, exists, constructed, cached_embedder,
                   cached_document_store, embedders, made, raced, started>>
    /\ OthersUnchanged

\* a thread enters _reset_cache(), retrieval.py:88-94
CallReset(t) ==
    /\ ~InProgress(calls[t])
    /\ started < MaxCalls
    /\ calls' = [calls EXCEPT ![t] = [NoCall EXCEPT !.fn = "_reset_cache",
                                                    !.pc = "reset_embedder"]]
    /\ started' = started + 1
    /\ raced' = (raced \/ ~Quiet)
    /\ made' = [made EXCEPT !.resets = @ + 1]
    /\ UNCHANGED <<collection, exists, constructed, cached_embedder,
                   cached_document_store, embedders>>
    /\ OthersUnchanged

\* retrieval.py:95, _cached_embedder = None
ResetEmbedder(t) ==
    /\ calls[t].pc = "reset_embedder"
    /\ cached_embedder' = None
    /\ made' = [made EXCEPT !.embedder = 0]
    /\ calls' = [calls EXCEPT ![t].pc = "reset_store"]
    /\ UNCHANGED <<collection, exists, constructed, cached_document_store,
                   embedders, raced, started>>
    /\ OthersUnchanged

\* retrieval.py:96, _cached_document_store = None, and the return
ResetStore(t) ==
    /\ calls[t].pc = "reset_store"
    /\ cached_document_store' = None
    /\ made' = [made EXCEPT !.store = 0]
    /\ calls' = [calls EXCEPT ![t].pc = "done"]
    /\ UNCHANGED <<collection, exists, constructed, cached_embedder,
                   embedders, raced, started>>
    /\ OthersUnchanged

NextCache ==
    \E t \in Threads :
          \/ CallGet(t)
          \/ CallConstructor(t)
          \/ CheckCache(t)
          \/ OpenAITextEmbedder(t)
          \/ get_collections(t)
          \/ create_collection(t)
          \/ AssignCache(t)
          \/ ReturnCached(t)
          \/ CallReset(t)
          \/ ResetEmbedder(t)
          \/ ResetStore(t)

SpecCache == InitDocs /\ [][NextCache]_vars

(***************************************************************************)
(* Properties of the document-store adapter.                               *)
(***************************************************************************)
WriteOk == lastOp.op = "write" /\ lastOp.status = "ok"
DeleteOk == lastOp.op = "delete" /\ lastOp.status = "ok"

\* the positions of the input list whose document has an embedding
Embedded(documents) == {i \in DOMAIN documents : ~IsNone(documents[i].embedding)}
EmbeddedIds(documents) == {documents[i].id : i \in Embedded(documents)}
StoredIds(coll) == {p.payload.doc_id : p \in coll}

\* the last position of the input list that holds an embedded document with id i
LastWithId(documents, i) ==
    CHOOSE k \in Embedded(documents) :
        /\ documents[k].id = i
        /\ \A m \in Embedded(documents) : documents[m].id = i => m <= k

\* C7: a write of an id that is already stored overwrites the stored point:
\* after a successful write every written id has exactly one stored point, which
\* carries the content of the last document written with that id, and the count
\* is unchanged when every written id was stored before; the point id depends on
\* the document id alone, and a delete by id removes exactly the points that
\* were written under the ids it is given.
C7_IdempotentWrite ==
    /\ WriteOk =>
         /\ \A i \in EmbeddedIds(lastOp.docs) :
               /\ Cardinality({p \in collection : p.payload.doc_id = i}) = 1
               /\ \A p \in collection : p.payload.doc_id = i =>
                     p.payload.content =
                        lastOp.docs[LastWithId(lastOp.docs, i)].content
         /\ EmbeddedIds(lastOp.docs) \subseteq StoredIds(lastOp.before) =>
               PointsCount(collection) = PointsCount(lastOp.before)
    /\ \A p \in collection, q \in collection \cup lastOp.before :
          p.payload.doc_id = q.payload.doc_id => p.id = q.id
    /\ (DeleteOk /\ Truthy(lastOp.ids)) =>
          collection = {p \in lastOp.before : p.payload.doc_id \notin Range(Val(lastOp.ids))}

\* a stored id has been written again with another content, and then: a stored
\* id has been deleted
C7_Witness ==
    /\ WriteOk
    /\ \E i \in Embedded(lastOp.docs) : \E p \in lastOp.before :
          /\ p.payload.doc_id = lastOp.docs[i].id
          /\ p.payload.content # lastOp.docs[i].content
    /\ PointsCount(collection) = PointsCount(lastOp.before)
    /\ PointsCount(collection) = 2

\* C8: documents without an embedding are left out of the persisted points and
\* of the returned count and do not fail the call; a list without any embedded
\* document returns 0 and issues no upsert.
C8_SkipWithoutEmbedding ==
    lastOp.op = "write" =>
        /\ \A p \in collection \ lastOp.before :
              \E i \in Embedded(lastOp.docs) :
                  /\ p.payload.doc_id = lastOp.docs[i].id
                  /\ p.payload.content = lastOp.docs[i].content
                  /\ p.vector = Val(lastOp.docs[i].embedding)
        /\ lastOp.status = "ok" => lastOp.ret = Cardinality(Embedded(lastOp.docs))
        /\ Embedded(lastOp.docs) = {} =>
              /\ lastOp.status = "ok"
              /\ lastOp.ret = 0
              /\ lastOp.upserts = 0
              /\ collection = lastOp.before

\* a list that mixes documents with and without an embedding has been written
C8_Witness ==
    /\ WriteOk
    /\ Embedded(lastOp.docs) # {}
    /\ Embedded(lastOp.docs) # DOMAIN lastOp.docs
    /\ lastOp.ret = 2
    /\ Len(lastOp.docs) = 3

\* C9 as stated: after a successful write into an empty collection the count
\* equals the returned value, for every input list.
C9_CountEqualsReturned ==
    (WriteOk /\ lastOp.before = {}) => PointsCount(collection) = lastOp.ret

\* C9 amended: the returned value is the number of input documents that have an
\* embedding, the count after a write into an empty collection is the number of
\* distinct ids among them; the two agree when those ids are pairwise distinct.
C9_ReturnedCountsEmbedded ==
    (WriteOk /\ lastOp.before = {}) =>
        /\ lastOp.ret = Cardinality(Embedded(lastOp.docs))
        /\ PointsCount(collection) = Cardinality(EmbeddedIds(lastOp.docs))
        /\ PointsCount(collection) <= lastOp.ret
        /\ (\A i, k \in Embedded(lastOp.docs) :
               lastOp.docs[i].id = lastOp.docs[k].id => i = k)
             => PointsCount(collection) = lastOp.ret

\* two embedded documents with distinct ids and one without an embedding have
\* been written into an empty collection
C9_Witness ==
    /\ WriteOk
    /\ lastOp.before = {}
    /\ Len(lastOp.docs) = 3
    /\ lastOp.ret = 2
    /\ PointsCount(collection) = 2

\* C10: a delete by a non-empty id list returns the length of the list, whether
\* or not the ids are stored; a delete by filter without ids returns -1.
C10_DeleteCount ==
    DeleteOk =>
        /\ Truthy(lastOp.ids) => lastOp.ret = Len(Val(lastOp.ids))
        /\ (~Truthy(lastOp.ids) /\ Truthy(lastOp.filters)) => lastOp.ret = -1
        /\ ~Truthy(lastOp.ids) => lastOp.ret <= 0

\* a list of two ids of which none is stored has been deleted
C10_Witness ==
    /\ DeleteOk
    /\ Truthy(lastOp.ids)
    /\ Len(Val(lastOp.ids)) = 2
    /\ Range(Val(lastOp.ids)) \cap StoredIds(lastOp.before) = {}
    /\ lastOp.before # {}
    /\ lastOp.ret = 2

(***************************************************************************)
(* Properties of POST /query and of the retrieval pipelines.               *)
(***************************************************************************)
Blank(q) == \A i \in DOMAIN q : q[i] \in {" ", "\n", "\t", "\r", "\f"}
Last(s) == s[Len(s)]
Transient(e) == e.cls \in {"APIError", "APIConnectionError", "APITimeoutError"}
HttpAnswered ==
    /\ ~IsNone(http.body)
    /\ run.pc \in {"responded", "returned", "raised", "exhausted", "closed"}

\* C1: POST /query with a non-blank query and no stream flag answers 200 with
\* answer, documents and metadata when no provider call fails.
C1_QueryReturns200 ==
    (/\ HttpAnswered
     /\ ~Blank(Val(http.body).query)
     /\ IsNone(Val(http.body).stream)
     /\ IsNone(run.exc))
    => (/\ http.status = 200
        /\ ~IsNone(http.content)
        /\ {"answer", "documents", "metadata"} \subseteq DOMAIN Val(http.content))

\* C2: a blank query answers 400 with a detail string and makes no embedding,
\* search or generation call, whether or not the body asks for a stream.
C2_EmptyQueryRejected ==
    (~IsNone(http.body) /\ Blank(Val(http.body).query)) =>
        /\ http.status = 400
        /\ ~IsNone(http.detail)
        /\ run.pc = "responded"
        /\ run.embedAttempts = 0 /\ run.searchAttempts = 0 /\ run.genCalls = 0
        /\ events = <<>> /\ sse = <<>>

\* a request with a whitespace-only query that asks for a stream has been answered
C2_Witness ==
    /\ ~IsNone(http.body)
    /\ Val(http.body).query = <<" ", " ">>
    /\ Val(http.body).stream = Some(TRUE)
    /\ http.status = 400

\* C3: every finished run of retrieve_documents_streaming has yielded exactly one
\* documents event before its first token event, and its last event is the only
\* done or error event.
C3_StreamingEventOrder ==
    (run.entry = "streaming" /\ run.pc \in {"exhausted", "raised"}) =>
        /\ events # <<>>
        /\ Last(events).type \in {"done", "error"}
        /\ \A i \in 1..(Len(events) - 1) : events[i].type \notin {"done", "error"}
        /\ \A i \in DOMAIN events : events[i].type = "token" =>
              Cardinality({k \in 1..(i - 1) : events[k].type = "documents"}) = 1

\* C4: when embedding and search succeed, the SSE stream starts with a documents
\* event that carries the number of retrieved documents, repeats every token
\* event of the pipeline in order and ends with done when the pipeline does.
C4_SseMirrorsPipeline ==
    (/\ run.entry = "sse"
     /\ run.pc \in {"exhausted", "raised", "closed"}
     /\ events # <<>>
     /\ events[1].type = "documents")
    => (/\ Len(sse) >= Len(events)
        /\ sse[1].type = "documents"
        /\ sse[1].count = Len(events[1].data)
        /\ \A i \in DOMAIN events : events[i].type = "token" =>
              sse[i] = [type |-> "token", content |-> events[i].data]
        /\ Last(events).type = "done" => Last(sse).type = "done")

\* C5: in the streaming path the failure of a stage ends the stream with an error
\* event and is not raised out of retrieve_documents_streaming; the error event
\* of a generation timeout differs from that of another generation failure.
C5_StreamingFailureIsEvent ==
    (run.entry = "streaming" /\ run.failed # "none") =>
        /\ run.pc = "exhausted"
        /\ outcome.kind # "raised"
        /\ events # <<>>
        /\ Last(events).type = "error"
        /\ run.failed = "generation" =>
              (Last(events).error[1] = "LLM generation timed out: "
                  <=> Val(run.exc).cls = "APITimeoutError")

\* C6: when every attempt of the embedding call of a synchronous query fails with
\* a transient provider error, there are 3 attempts, retrieve_documents raises
\* ExternalServiceError, and no search and no generation call is made; a search
\* or generation call is made only after an embedding attempt has succeeded.
C6_EmbeddingRetryExhaustion ==
    /\ (/\ run.entry = "sync"
        /\ run.failed = "embedding"
        /\ Transient(Val(run.exc)))
       => (/\ run.embedAttempts = 3
           /\ run.pc = "raised"
           /\ outcome.kind = "raised"
           /\ outcome.cls = "ExternalServiceError"
           /\ run.searchAttempts = 0
           /\ run.genCalls = 0)
    /\ (run.entry = "sync" /\ (run.searchAttempts > 0 \/ run.genCalls > 0))
       => ~IsNone(run.embedding)
    /\ (run.entry = "sync" /\ IsNone(run.embedding)) => run.pc \in {"embed", "raised"}

\* the third attempt of the embedding call has failed with a connection error
C6_Witness ==
    /\ run.entry = "sync"
    /\ run.failed = "embedding"
    /\ run.embedAttempts = 3
    /\ Val(run.exc).cls = "APIConnectionError"
    /\ outcome.kind = "raised"
    /\ outcome.cls = "ExternalServiceError"

(***************************************************************************)
(* Properties of the documents routes.                                     *)
(***************************************************************************)
Responded(op) == api.op = op /\ api.stage = "responded"
\* the stored chunks that were cut from the document with the given id
ChunksOf(coll, doc_id) == {p \in coll : p.payload.source_id = doc_id}

\* C11: DELETE /documents/{id} for an id that a successful POST /documents has
\* returned is answered 200 with a body that names the id whenever the store
\* can be reached, and an answer of 404 means that no point was deleted.
C11_DeleteCreatedAnswers200 ==
    (Responded("delete") /\ api.failed = "none") =>
        /\ Val(api.arg) \in created =>
                api.status = 200 /\ api.document_id = api.arg
        /\ api.status = 404 => collection = api.before

\* C12: once DELETE /documents/{id} has been answered for an id that POST
\* /documents returned, with the store reachable, the collection holds no
\* chunk cut from that document, however many chunks there were.
C12_DeleteRemovesEveryChunk ==
    (Responded("delete") /\ api.failed = "none" /\ Val(api.arg) \in created) =>
        ChunksOf(collection, Val(api.arg)) = {}

\* C13: DELETE /documents without all=true is answered 400 and leaves the
\* collection as it was; with all=true a successful answer leaves a collection
\* that exists and holds no point, and deleted_count is the number of points
\* the collection held before the call.
C13_DeleteAll ==
    Responded("delete_all") =>
        /\ ~api.all => api.status = 400 /\ collection = api.before
        /\ api.all => api.status # 400
        /\ (api.all /\ api.status = 200) =>
                /\ exists
                /\ PointsCount(collection) = 0
                /\ api.deleted_count = Some(Cardinality(api.before))

\* a confirmed wipe of a collection of several points has been answered 200
C13_Witness ==
    /\ Responded("delete_all") /\ api.all /\ api.status = 200
    /\ Cardinality(api.before) >= 2

(***************************************************************************)
(* Properties of the search.                                               *)
(***************************************************************************)
SearchOk == lastOp.op = "search" /\ lastOp.status = "ok"
\* the stored points that pass the filter and the threshold of the last search
Passing ==
    {p \in lastOp.before :
        /\ ~Truthy(lastOp.filters) \/ Matches(p.payload, Val(lastOp.filters))
        /\ IsNone(lastOp.score_threshold)
              \/ Score(Val(lastOp.query_embedding), p.vector) >= Val(lastOp.score_threshold)}

\* C14: a search with top_k = k returns at most k documents, and a result of
\* retrieve_documents holds at most k documents for the effective top_k = k (the
\* caller's value, or the settings default), with
\* metadata.num_documents_retrieved equal to the number of documents returned.
C14_AtMostTopK ==
    /\ run.pc \notin {"idle", "responded"} =>
            /\ run.top_k \in (1..MaxTopK) \cup {retrieval_top_k}
            /\ Len(run.documents) <= run.top_k
    /\ outcome.kind = "returned" =>
            /\ outcome.value.metadata.top_k = run.top_k
            /\ Len(outcome.value.documents) <= outcome.value.metadata.top_k
            /\ outcome.value.metadata.num_documents_retrieved
                    = Len(outcome.value.documents)

\* retrieve_documents has returned one document for top_k = 1 although two
\* stored points pass the similarity threshold
C14_Witness ==
    /\ outcome.kind = "returned"
    /\ run.top_k = 1
    /\ Len(outcome.value.documents) = 1
    /\ Cardinality({p \in collection :
            Score(Val(run.embedding), p.vector) >= min_similarity_score}) >= 2

\* C15 as claimed: every document a filtered search returns carries, in its
\* metadata, the filter's value on every key of the filter.
C15_MetaEqualsFilter ==
    (SearchOk /\ Truthy(lastOp.filters)) =>
        \A i \in DOMAIN lastOp.ret : \A k \in DOMAIN Val(lastOp.filters) :
            /\ k \in DOMAIN lastOp.ret[i].meta
            /\ lastOp.ret[i].meta[k] = Val(lastOp.filters)[k]

\* C15 amended: every document a filtered search returns agrees with the filter
\* on every key, where the keys content and doc_id are read from the document's
\* content and id and every other key from its metadata; when no stored point
\* passes, the search returns the empty list.
C15_ResultsMatchFilter ==
    SearchOk =>
        /\ Truthy(lastOp.filters) =>
              \A i \in DOMAIN lastOp.ret : \A k \in DOMAIN Val(lastOp.filters) :
                 LET doc == lastOp.ret[i]
                     value == Val(lastOp.filters)[k]
                 IN CASE k = "doc_id" -> doc.id = value
                      [] k = "content" -> doc.content = value
                      [] OTHER -> k \in DOMAIN doc.meta /\ doc.meta[k] = value
        /\ Passing = {} => lastOp.ret = <<>>

\* a search filtered on a metadata key has returned a document while another
\* stored point, near enough to the query, fails the filter
C15_Witness ==
    /\ SearchOk
    /\ lastOp.filters = Some([category |-> "tech"])
    /\ Len(lastOp.ret) >= 1
    /\ \E p \in lastOp.before :
            /\ p.payload.category = "art"
            /\ Score(Val(lastOp.query_embedding), p.vector) = 100

(***************************************************************************)
(* Properties of what the client of POST /query sees.                      *)
(***************************************************************************)
\* the same text in the run whose provider exceptions carry the other message
OtherMsg(x) == IF x \in ExcMsgs THEN CHOOSE m \in ExcMsgs : m # x ELSE x
\* the SSE events of the run that differs only in the messages of the exceptions
TwinSse ==
    [i \in DOMAIN sse |->
        IF sse[i].type = "error"
        THEN [sse[i] EXCEPT !.error = [j \in DOMAIN @ |-> OtherMsg(@[j])]]
        ELSE sse[i]]
\* the HTTP response of that run
TwinHttp ==
    IF IsNone(http.detail) THEN http
    ELSE [http EXCEPT !.detail = Some(OtherMsg(Val(@)))]

\* C16: what the client receives, the HTTP response and every SSE event, is
\* the same in two runs that differ only in the message of the provider
\* exceptions, so no text of an internal exception reaches the client.
C16_ClientOutputHidesExceptionText ==
    /\ TwinSse = sse
    /\ TwinHttp = http

(***************************************************************************)
(* Properties of the adapter instances and of the indexing pipeline.       *)
(***************************************************************************)
\* C17: over any sequence of requests served by one process, the vector store
\* adapter is constructed at most once.
C17_AdapterBuiltOnce == constructed <= 1

\* the embedding stage of the indexing run has failed: the embedder raised, or
\* it has handed on a chunk without embedding
EmbeddingFailed ==
    \/ api.failed = "embedding"
    \/ /\ api.stage \in {"write", "responded"}
       /\ \E i \in DOMAIN api.chunks : IsNone(api.chunks[i].embedding)

\* C18: in a request that runs index_documents (POST /documents or POST
\* /documents/upload), the collection is as it was before the call while the
\* run has not reached the end of its writer stage; it is still so once the
\* embedding stage has failed; and whenever the call has changed the
\* collection, every chunk of the call had been embedded.
C18_EmbeddingFailureWritesNothing ==
    api.op \in {"create", "upload"} =>
        /\ api.stage \in {"pipeline", "split", "embed", "write"} =>
                collection = api.before
        /\ EmbeddingFailed => collection = api.before
        /\ collection # api.before =>
                /\ api.chunks # <<>>
                /\ \A i \in DOMAIN api.chunks : ~IsNone(api.chunks[i].embedding)

(***************************************************************************)
(* Properties of the streaming events and of the embedding retries.        *)
(***************************************************************************)
\* C19: in the events of one call of retrieve_documents_streaming, an error
\* event comes only from the failure of the embedding or of the search, no
\* error event follows a token event, and a done or error event is the last
\* event of the call, so each is emitted at most once.
C19_ErrorOnlyBeforeTokens ==
    \A i \in DOMAIN events :
        /\ events[i].type = "error" =>
                /\ run.failed \in {"embedding", "search"}
                /\ \A k \in 1..(i - 1) : events[k].type # "token"
        /\ events[i].type \in {"done", "error"} => i = Len(events)

\* the generation provider has failed after a token event was emitted, and the
\* call has ended
C19_Witness ==
    /\ run.entry = "streaming"
    /\ run.failed = "generation"
    /\ run.pc \in {"raised", "exhausted"}
    /\ \E i \in DOMAIN events : events[i].type = "token"

\* C20: the embedding call is attempted at most 3 times; the stage is still
\* open after a failed attempt only when the failure was a transient provider
\* error, and any other exception ends it after that attempt; on the
\* synchronous path a failed embedding stage raises ExternalServiceError.
C20_EmbeddingAttempts ==
    /\ run.embedAttempts <= 3
    /\ (run.pc = "embed" /\ run.embedAttempts >= 1) =>
            /\ ~IsNone(run.exc)
            /\ Transient(Val(run.exc))
    /\ run.failed = "embedding" =>
            /\ run.pc # "embed"
            /\ ~Transient(Val(run.exc)) \/ run.embedAttempts = 3
    /\ (run.entry = "sync" /\ run.failed = "embedding") =>
            /\ outcome.kind = "raised"
            /\ outcome.cls = "ExternalServiceError"

\* after one transient failure the second attempt has failed with an exception
\* that is not a provider error, and retrieve_documents has raised
C20_Witness ==
    /\ run.entry = "sync"
    /\ run.failed = "embedding"
    /\ run.embedAttempts = 2
    /\ Val(run.exc).cls = "ValueError"
    /\ outcome.kind = "raised"


(***************************************************************************)
(* Properties of the stages of one query, checked under Spec.              *)
(***************************************************************************)
SyncEntries == {"sync", "http_sync"}
StreamEntries == {"streaming", "sse", "http_sse"}

\* a search attempt of this query has returned documents
SearchSucceeded ==
    /\ run.searchAttempts >= 1
    /\ run.pc # "search"
    /\ run.failed # "search"

HasEvent(type) == \E i \in DOMAIN events : events[i].type = type

\* C21: the search call is attempted at most twice and every exception of the
\* first attempt is retried; two failures raise ExternalServiceError on the
\* synchronous path with no generation call; the documents of a successful
\* search are a result of the search on the collection whichever attempt
\* returned them.
C21_SearchRetry ==
    /\ run.searchAttempts <= 2
    /\ (run.pc = "search" /\ run.searchAttempts >= 1) =>
            (run.searchAttempts = 1 /\ ~IsNone(run.exc))
    /\ (run.failed = "search" /\ run.searchAttempts >= 1) => run.searchAttempts = 2
    /\ (run.entry \in SyncEntries /\ run.failed = "search") =>
            /\ outcome.kind = "raised"
            /\ outcome.cls = "ExternalServiceError"
            /\ run.genCalls = 0
    /\ SearchSucceeded =>
            run.documents \in search(collection, Val(run.embedding), run.top_k, None,
                                     Some(min_similarity_score))

\* the second search attempt of a synchronous query returned documents and the
\* query went on to return
C21_Witness ==
    /\ run.entry = "sync"
    /\ run.searchAttempts = 2
    /\ run.pc = "returned"
    /\ run.documents # <<>>

\* the two search attempts of a synchronous query both failed
C21_WitnessExhausted ==
    /\ run.entry = "sync"
    /\ run.searchAttempts = 2
    /\ run.failed = "search"

\* C22: the generation provider is called at most once per query, and a
\* generation failure ends the query with a raised ExternalServiceError on the
\* synchronous path and with a final error event on the streaming path.
C22_GenerationNeverRetried ==
    /\ run.genCalls <= 1
    /\ run.failed = "generation" =>
            IF run.entry \in SyncEntries
            THEN outcome.kind = "raised" /\ outcome.cls = "ExternalServiceError"
            ELSE events # <<>> /\ Last(events).type = "error"

\* C23: a search attempt is made only with a computed embedding, the
\* generation provider is called only after a search returned, and on the
\* streaming path only after the documents event was emitted.
C23_StagesSequential ==
    /\ run.searchAttempts > 0 => (run.embedAttempts > 0 /\ ~IsNone(run.embedding))
    /\ run.genCalls > 0 => SearchSucceeded
    /\ (run.entry \in StreamEntries /\ run.genCalls > 0) =>
            /\ HasEvent("documents")
            /\ events[1].type = "documents"
            /\ events[1].data = run.documents

\* a streaming query called the generation provider after a retried embedding
\* and a retried search
C23_Witness ==
    /\ run.entry = "streaming"
    /\ run.embedAttempts >= 2
    /\ run.searchAttempts = 2
    /\ run.genCalls = 1
    /\ HasEvent("documents")

\* C27: a synchronous query whose generation succeeded answers with the first
\* completion, or with "No answer generated" when there is none, and a
\* generation failure is raised as ExternalServiceError.
C27_AnswerIsFirstReply ==
    /\ (run.entry \in SyncEntries /\ run.pc = "returned") =>
            /\ ~IsNone(run.replies)
            /\ outcome.kind = "returned"
            /\ outcome.value.answer =
                    IF Val(run.replies) = <<>> THEN "No answer generated"
                    ELSE Head(Val(run.replies))
    /\ (run.entry \in SyncEntries /\ run.failed = "generation") =>
            /\ outcome.kind = "raised"
            /\ outcome.cls = "ExternalServiceError"

\* the provider returned no completion and the query returned the fixed answer
C27_Witness ==
    /\ run.entry = "sync"
    /\ run.pc = "returned"
    /\ run.replies = Some(<<>>)
    /\ outcome.value.answer = "No answer generated"

\* the provider returned two completions
C27_WitnessTwoReplies ==
    /\ run.entry = "sync"
    /\ run.pc = "returned"
    /\ ~IsNone(run.replies)
    /\ Len(Val(run.replies)) = 2

\* the document's metadata has the filter's value on every key of the filter
MetaCarries(doc, filters) ==
    \A k \in DOMAIN filters : k \in DOMAIN doc.meta /\ doc.meta[k] = filters[k]

PointsAt(points, lo, hi) == [i \in 1..(IF hi >= lo THEN hi - lo + 1 ELSE 0) |-> points[lo + i - 1]]

\* the number of slices of at most size points that cover a list of length len
SlicesOf(len, size) == CHOOSE n \in 0..len : (n - 1) * size < len /\ len <= n * size

\* C24: when the j-th upsert of a write raises, j upsert calls have been made,
\* the points before position (j-1)*batch_size + 1 are stored as they were
\* upserted and no point after position j*batch_size has been upserted; a
\* write that succeeds has made one upsert per consecutive slice of at most
\* batch_size points and has stored the points in input order.
C24_BatchFailureKeepsEarlierBatches ==
    lastOp.op = "write" =>
        LET points == PointsOf(lastOp.docs)
            size == lastOp.batch_size
            j == lastOp.upserts
            kept == Upsert(lastOp.before, PointsAt(points, 1, (j - 1) * size))
            failing == PointsAt(points, (j - 1) * size + 1, Min(j * size, Len(points)))
        IN
        /\ lastOp.status \in {"ok", "raised"}
        /\ lastOp.status = "raised" =>
              /\ j >= 1
              /\ (j - 1) * size < Len(points)
              /\ failing # <<>>
              /\ collection = IF lastOp.applied THEN Upsert(kept, failing) ELSE kept
        /\ lastOp.status = "ok" =>
              /\ j = SlicesOf(Len(points), size)
              /\ collection = Upsert(lastOp.before, points)

\* the second of three upserts raised without effect: the first point is
\* stored, the second and the third are not
C24_Witness ==
    /\ lastOp.op = "write"
    /\ lastOp.status = "raised"
    /\ lastOp.upserts = 2
    /\ ~lastOp.applied
    /\ lastOp.batch_size = 1
    /\ lastOp.before = {}
    /\ LET points == PointsOf(lastOp.docs) IN
          /\ Len(points) = 3
          /\ collection = {points[1]}
          /\ points[2].id # points[1].id
          /\ points[3].id # points[1].id

\* a write of three points in two batches succeeded
C24_WitnessOk ==
    /\ WriteOk
    /\ lastOp.batch_size = 2
    /\ lastOp.upserts = 2
    /\ Len(PointsOf(lastOp.docs)) = 3
    /\ lastOp.before = {}
    /\ PointsCount(collection) = 2

(***************************************************************************)
(* Properties of DELETE /documents?all=true, checked under SpecDocs.       *)
(***************************************************************************)
\* C29: after a DELETE /documents?all=true that was answered 200, or 500
\* because delete_collection or _ensure_collection failed, the collection
\* exists.
C29_CollectionExistsAfterDeleteAll ==
    (/\ Responded("delete_all")
     /\ api.all
     /\ \/ api.status = 200
        \/ api.status = 500 /\ api.failed \in {"delete_collection", "ensure_collection"})
    => exists

(***************************************************************************)
(* Properties of the cached get functions and of the constructor under     *)
(* threads, checked under SpecCache.                                       *)
(***************************************************************************)
\* the get calls that have returned
Returned(t) == calls[t].fn \in GetFunctions /\ calls[t].pc = "done"

\* C25: as long as no two calls have overlapped, each get function has built
\* at most one object since the last reset (none while its cache is empty
\* after a reset), a get that found its cache filled built nothing, a get that
\* found it empty built the object it returns, and every get that returned
\* since the last reset returned the object its cache holds.
C25_SequentialCache ==
    ~raced =>
        /\ made.embedder <= 1
        /\ made.store <= 1
        /\ made.embedder = 0 => IsNone(cached_embedder)
        /\ made.store = 0 => IsNone(cached_document_store)
        /\ \A t \in Threads : Returned(t) =>
              /\ ~IsNone(calls[t].ret)
              /\ calls[t].epoch = made.resets => calls[t].ret = CachedOf(calls[t].fn)
              /\ calls[t].hit <=> IsNone(calls[t].obj)
              /\ ~calls[t].hit => calls[t].ret = calls[t].obj

\* without overlap: a second embedder was built after a reset and a later get
\* returned it from the cache
C25_Witness ==
    /\ ~raced
    /\ embedders = 2
    /\ made.embedder = 1
    /\ \E t \in Threads :
          /\ Returned(t)
          /\ calls[t].fn = "get_text_embedder"
          /\ calls[t].hit
          /\ calls[t].ret = Some(2)

\* C26: while the threads call the get functions only and none has called
\* _reset_cache, no call raises, every call that has returned has returned an
\* object, and a call that started when no other call was in progress and the
\* cache was filled has returned the cached object.
C26_RaceIsBenign ==
    (/\ made.resets = 0
     /\ \A u \in Threads : calls[u].fn \in GetFunctions \cup {"none"}) =>
    \A t \in Threads : calls[t].fn \in GetFunctions =>
        /\ calls[t].pc # "raised"
        /\ Returned(t) => ~IsNone(calls[t].ret)
        /\ (Returned(t) /\ calls[t].settled) => calls[t].ret = CachedOf(calls[t].fn)

\* C30: no construction of the adapter raises, and the collection exists once
\* a construction has returned.
C30_ConcurrentEnsureSucceeds ==
    \A t \in Threads : calls[t].fn = "QdrantDocumentStore" =>
        /\ calls[t].pc # "raised"
        /\ calls[t].pc = "done" => exists
====
